---- MODULE Spec2Model ----
(***************************************************************************)
(* FileShare backend: the document registry and the sharing protocol of    *)
(* backend/controllers/documents.js over the Mongoose model                *)
(* backend/models/Document.js.                                             *)
(*                                                                         *)
(* Every request handler is an async function.  Between two awaits it runs *)
(* without interruption, so one action of the model is one stretch of a    *)
(* handler from one awaited database / content-store call to the next:     *)
(* the effect of the awaited call followed by the synchronous code up to   *)
(* the next await (or to the response).  The first action of a handler     *)
(* also holds the code before the first await (the validationResult        *)
(* check).  Requests run in slots; a slot holds the handler's local        *)
(* variables (req.params, req.body, req.user, document) and, once it has   *)
(* answered, the response.                                                 *)
(***************************************************************************)
EXTENDS Integers, Sequences, FiniteSets, TLC

VARIABLES
  docs,    \* the documents collection: a function _id -> stored document
  cloud,   \* the content store: the publicIds of the objects it holds
  unused,  \* the ObjectIds not yet given to an upload
  now,     \* Date.now()
  req,     \* the requests: slot -> the handler's locals and its response
  identities,  \* the users collection: a function _id -> stored user
  outbox,      \* the mail delivered: address -> the code of the last mail to it
  tokens,      \* the access tokens issued: user id -> the last token issued for it
  areq         \* the requests to the auth and user routes, as req

vars == <<docs, cloud, unused, now, req, identities, outbox, tokens, areq>>

\* what the document handlers never touch
authVars == <<identities, outbox, tokens, areq>>

\* what the auth and user handlers never touch
docVars == <<docs, cloud, unused, req>>

(* ------------------------------ bounds -------------------------------- *)

MaxTime == 1      \* the clock stops here
MaxVersion == 3   \* array mutations (__v) per document

(* ------------------------------ users --------------------------------- *)

\* The identities req.user can be: protect (middleware/auth.js) lets a request
\* through only with a token of an existing, verified user.
Users == {"alice", "bob", "carol"}

EmailOf == [u \in Users |-> CASE u = "alice" -> "alice@x.com"
                              [] u = "bob"   -> "bob@x.com"
                              [] u = "carol" -> "carol@x.com"]

NoUser == "null"

\* User.findOne({ email })
FindUserByEmail(email) ==
  IF \E u \in Users : EmailOf[u] = email
  THEN CHOOSE u \in Users : EmailOf[u] = email
  ELSE NoUser

(* ------------------------------ inputs -------------------------------- *)

Slots == {1, 2}

\* the ObjectIds there are: an upload takes an unused one for the stored object's
\* public_id and for the document's _id, and an id is never given twice
DocIds == {"d1"}

\* req.body.email: the users' addresses, a well-formed address of nobody, and a
\* string that is no address
Emails == {EmailOf[u] : u \in Users} \cup {"nobody@x.com", "not-an-email"}
\* req.params.userId: the users' ids and an id of nobody
UserIdParams == Users \cup {"ghost"}
\* req.body.accessLevel
AccessLevelInputs == {"view", "edit", "admin"}

DocumentTypes == {"Aadhaar", "PAN Card", "Passport", "Driving License", "Voter ID", "Other"}

\* req.body of upload and update: two well-formed bodies, one the route's
\* validators reject (empty title), one only the schema rejects (documentType
\* outside the enum)
Bodies ==
  { [title |-> "t1", description |-> "x1", documentType |-> "Passport"],
    [title |-> "t2", description |-> "x2", documentType |-> "Other"],
    [title |-> "",   description |-> "x1", documentType |-> "Passport"],
    [title |-> "t1", description |-> "x1", documentType |-> "Resume"] }

NoBody == [title |-> "", description |-> "", documentType |-> ""]
NoDoc == [absent |-> TRUE]

(* --------------------------- validation ------------------------------- *)

\* check('email').isEmail()
IsEmail(email) == email # "not-an-email"

\* check('accessLevel').isIn(['view', 'edit'])
AccessLevelValid(accessLevel) == accessLevel \in {"view", "edit"}

\* check('title'|'description'|'documentType').not().isEmpty()
BodyValid(body) ==
  body.title # "" /\ body.description # "" /\ body.documentType # ""

\* the schema's validators (required, enum), run by Document.create and by
\* findByIdAndUpdate with runValidators
SchemaValid(body) ==
  /\ body.title # ""
  /\ body.description # ""
  /\ body.documentType \in DocumentTypes

(* ------------------------ permission resolution ----------------------- *)

\* mutant: a user with an edit entry passes for the owner
IsOwner_OrEditor(document, user) ==
  \/ document.owner = user
  \/ \E i \in DOMAIN document.sharedWith :
       /\ document.sharedWith[i].user = user
       /\ document.sharedWith[i].accessLevel = "edit"

\* document.owner.toString() === req.user._id.toString()
IsOwner(document, user) == document.owner = user

\* mutant: only an edit entry counts as shared
IsShared_EditOnly(document, user) ==
  \E i \in DOMAIN document.sharedWith :
    /\ document.sharedWith[i].user = user
    /\ document.sharedWith[i].accessLevel = "edit"

\* document.sharedWith.some(share => share.user ... === req.user._id)
IsShared(document, user) ==
  \E i \in DOMAIN document.sharedWith : document.sharedWith[i].user = user

\* mutant: the accessLevel test is dropped
HasEditAccess_AnyLevel(document, user) ==
  \E i \in DOMAIN document.sharedWith : document.sharedWith[i].user = user

\* document.sharedWith.find(share => share.user === user && accessLevel === 'edit')
HasEditAccess(document, user) ==
  \E i \in DOMAIN document.sharedWith :
    /\ document.sharedWith[i].user = user
    /\ document.sharedWith[i].accessLevel = "edit"

\* document.sharedWith.findIndex(share => share.user === userId), 1-based;
\* 0 stands for findIndex's -1
ShareIndex(document, userId) ==
  IF \E i \in DOMAIN document.sharedWith : document.sharedWith[i].user = userId
  THEN CHOOSE i \in DOMAIN document.sharedWith :
         /\ document.sharedWith[i].user = userId
         /\ \A j \in DOMAIN document.sharedWith :
              document.sharedWith[j].user = userId => i <= j
  ELSE 0

\* mutant: the first element is removed whatever the index
Splice_Shift(seq, index) == Tail(seq)

\* Array.prototype.splice(index, 1)
Splice(seq, index) ==
  [i \in 1..(Len(seq) - 1) |-> IF i < index THEN seq[i] ELSE seq[i + 1]]

(* ----------------------------- identities ----------------------------- *)
(* models/User.js is not part of the sources at hand.  What the handlers   *)
(* use of it (the fields of a user, the unique index on email, the         *)
(* password hook, generateOTP, matchPassword, getSignedJwtToken) follows   *)
(* the specification's Credential Store, OTP Lifecycle Manager and Session *)
(* Issuer.                                                                 *)

MaxAuthTime == 2  \* the clock of the auth specifications stops here

\* the lifetime of a code (OTP_EXPIRE_MINUTES) and of a token, in ticks
OtpTtl == 1
TokenTtl == 1

\* the ObjectIds of users, in the order User.create hands them out
UserIds == {"u1", "u2"}

\* the codes generateOTP can draw
Codes == {"111111", "222222"}

NoOtp == [code |-> "", expiry |-> 0]
NoIdentity == [id |-> "null"]
NoToken == [id |-> "", exp |-> 0, signed |-> FALSE]

\* bcrypt's hash of a password, as the pre('save') hook stores it
Hash(password) == <<"bcrypt", password>>

\* user.matchPassword(entered) and bcrypt.compare(entered, user.password)
MatchPassword(entered, stored) == Hash(entered) = stored

\* user.generateOTP(): sets user.otp to a fresh code that expires OtpTtl from
\* now, and returns the code
GenerateOTP(user, code) == [user EXCEPT !.otp = [code |-> code, expiry |-> now + OtpTtl]]

\* user.getSignedJwtToken(): a signed token that binds the user's id and expires
\* TokenTtl from now
GetSignedJwtToken(user) == [id |-> user.id, exp |-> now + TokenTtl, signed |-> TRUE]

\* jwt.verify(token, JWT_SECRET): the signature, and the expiry (a token has run
\* out when the clock has reached its exp)
JwtVerify(token) == token.signed /\ now < token.exp

\* mutant: findOne never finds a user
FindOne_Null(email) == NoIdentity

\* User.findOne({ email }): the first user with that address, or null
FindOne(email) ==
  IF \E id \in DOMAIN identities : identities[id].email = email
  THEN identities[CHOOSE id \in DOMAIN identities :
         /\ identities[id].email = email
         /\ \A other \in DOMAIN identities :
              identities[other].email = email => (id = "u1" \/ other # "u1")]
  ELSE NoIdentity

\* User.findById(id)
FindById(id) == IF id \in DOMAIN identities THEN identities[id] ELSE NoIdentity

\* the unique index on email: an insert of a second user with an address fails
EmailIsFree(email) == \A id \in DOMAIN identities : identities[id].email # email

\* the _id User.create gives the next user
NextUserId == IF "u1" \notin DOMAIN identities THEN "u1" ELSE "u2"

\* check('password').isLength({ min: 6 })
PasswordValid(password) == password # "short"

\* check('otp').not().isEmpty().isLength({ min: 6, max: 6 })
OtpValid(otp) == otp # "12345"

\* the handler's locals of a request to the auth and user routes
AuthIdle ==
  [ pc |-> "idle", op |-> "none", email |-> "", otp |-> "", password |-> "",
    name |-> "", newPassword |-> "", token |-> NoToken, user |-> NoIdentity,
    code |-> "", reqUser |-> "", status |-> 0, message |-> "", issued |-> NoToken ]

AuthFree(r) == areq[r].pc \in {"idle", "done"}

\* res.status(status).json({ success, message }) of an auth or user route
AuthRespond(rq, status, message) ==
  [rq EXCEPT !.pc = "done", !.user = NoIdentity, !.code = "", !.name = "",
             !.newPassword = "",
             !.status = status, !.message = message]

\* the mail after the notifier has delivered code to email
Deliver(email, code) == [a \in DOMAIN outbox \cup {email} |->
                           IF a = email THEN code ELSE outbox[a]]

\* the tokens issued after token has gone out
Issue(token) == [id \in DOMAIN tokens \cup {token.id} |->
                   IF id = token.id THEN token ELSE tokens[id]]

\* the tokens issued, as a set
Issued == {tokens[id] : id \in DOMAIN tokens}

\* sendTokenResponse(user, 200, res): a token is issued and answered
SendTokenResponse(rq, user) ==
  [AuthRespond(rq, 200, "") EXCEPT !.issued = GetSignedJwtToken(user)]

(* ------------------------------ requests ------------------------------ *)

Idle ==
  [ pc |-> "idle", op |-> "none", user |-> "", id |-> "",
    email |-> "", userId |-> "", accessLevel |-> "", body |-> NoBody,
    document |-> NoDoc, data |-> <<>>, isOwner |-> FALSE,
    status |-> 0, message |-> "" ]

Free(r) == req[r].pc \in {"idle", "done"}

\* res.status(status).json({ success, message }): the handler returns; what
\* stays is the request (who asked for what) and the answer
Respond(rq, status, message) ==
  [rq EXCEPT !.pc = "done", !.document = NoDoc, !.data = <<>>,
             !.status = status, !.message = message]

TypeOK ==
  /\ DOMAIN docs \subseteq DocIds
  /\ cloud \subseteq DocIds
  /\ unused \subseteq DocIds
  /\ now \in 0..MaxTime
  /\ DOMAIN req = Slots

Init ==
  /\ docs = << >>
  /\ cloud = {}
  /\ unused = DocIds
  /\ now = 0
  /\ req = [r \in Slots |-> Idle]
  /\ identities = << >>
  /\ outbox = << >>
  /\ tokens = << >>
  /\ areq = [r \in Slots |-> AuthIdle]

\* time passes
Tick ==
  /\ now < MaxTime
  /\ now' = now + 1
  /\ UNCHANGED <<docs, cloud, unused, req, authVars>>

(* ----------------------------- getDocument ---------------------------- *)

getDocument(r, user, id) ==
  /\ Free(r)
  /\ LET rq == [Idle EXCEPT !.op = "getDocument", !.user = user, !.id = id] IN
       IF id \notin DOMAIN docs
       THEN req' = [req EXCEPT ![r] = Respond(rq, 404, "Document not found")]
       ELSE LET document == docs[id]
                isOwner == IsOwner(document, user)
                isShared == IsShared(document, user)
            IN IF ~isOwner /\ ~isShared
               THEN req' = [req EXCEPT ![r] =
                      Respond(rq, 403, "Not authorized to access this document")]
               ELSE req' = [req EXCEPT ![r] =
                      [Respond(rq, 200, "") EXCEPT !.document = document,
                                                   !.isOwner = isOwner]]
  /\ UNCHANGED <<docs, cloud, unused, now, authVars>>

(* ---------------------------- uploadDocument -------------------------- *)

\* mutant: the storage key is not recorded
NewDocument_NoPublicId(body, publicId, owner) ==
  [ title |-> body.title, description |-> body.description,
    documentType |-> body.documentType,
    fileUrl |-> <<"secure_url", publicId>>, publicId |-> "",
    owner |-> owner, sharedWith |-> <<>>,
    updatedAt |-> now, v |-> 0 ]

\* Document.create({ title, description, documentType, fileUrl, publicId, owner }):
\* the schema's defaults give an empty sharedWith, updatedAt and __v 0 (createdAt,
\* which nothing reads or writes afterwards, is left out)
NewDocument(body, publicId, owner) ==
  [ title |-> body.title, description |-> body.description,
    documentType |-> body.documentType,
    fileUrl |-> <<"secure_url", publicId>>, publicId |-> publicId,
    owner |-> owner, sharedWith |-> <<>>,
    updatedAt |-> now, v |-> 0 ]

\* validation, the file check and the awaited cloudinary.uploader.upload, which
\* resolves with a fresh public_id (uploaded) or rejects
uploadDocument(r, user, body, file) ==
  /\ Free(r)
  /\ \E uploaded \in BOOLEAN, id \in unused :
       LET rq == [Idle EXCEPT !.op = "uploadDocument", !.user = user, !.body = body] IN
       IF ~BodyValid(body)
       THEN /\ req' = [req EXCEPT ![r] = Respond(rq, 400, "Validation failed")]
            /\ UNCHANGED <<cloud, unused>>
       ELSE IF ~file
       THEN /\ req' = [req EXCEPT ![r] = Respond(rq, 400, "Please upload a file")]
            /\ UNCHANGED <<cloud, unused>>
       ELSE IF ~uploaded
       THEN /\ req' = [req EXCEPT ![r] =
                 Respond(rq, 500, "Failed to upload file to cloud storage")]
            /\ UNCHANGED <<cloud, unused>>
       ELSE /\ cloud' = cloud \cup {id}
            /\ unused' = unused \ {id}
            /\ req' = [req EXCEPT ![r] = [rq EXCEPT !.pc = "create", !.id = id]]
  /\ UNCHANGED <<docs, now, authVars>>

\* the awaited Document.create: a schema validation error is caught by the inner
\* catch, which answers 500 and leaves the uploaded object in the content store
uploadDocument_create(r) ==
  /\ req[r].pc = "create"
  /\ LET rq == req[r] IN
     IF ~SchemaValid(rq.body)
     THEN /\ req' = [req EXCEPT ![r] =
               Respond(rq, 500, "Failed to upload file to cloud storage")]
          /\ UNCHANGED docs
     ELSE LET document == NewDocument(rq.body, rq.id, rq.user) IN
          /\ docs' = docs @@ (rq.id :> document)
          /\ req' = [req EXCEPT ![r] =
               [Respond(rq, 201, "") EXCEPT !.document = document]]
  /\ UNCHANGED <<cloud, unused, now, authVars>>

(* ---------------------------- updateDocument -------------------------- *)

\* validation, the awaited Document.findById and the authorization check
updateDocument(r, user, id, body) ==
  /\ Free(r)
  /\ LET rq == [Idle EXCEPT !.op = "updateDocument", !.user = user, !.id = id,
                              !.body = body] IN
       IF ~BodyValid(body)
       THEN req' = [req EXCEPT ![r] = Respond(rq, 400, "Validation failed")]
       ELSE IF id \notin DOMAIN docs
       THEN req' = [req EXCEPT ![r] = Respond(rq, 404, "Document not found")]
       ELSE LET document == docs[id] IN
            IF ~IsOwner(document, user) /\ ~HasEditAccess(document, user)
            THEN req' = [req EXCEPT ![r] =
                   Respond(rq, 403, "Not authorized to update this document")]
            ELSE req' = [req EXCEPT ![r] =
                   [rq EXCEPT !.pc = "findByIdAndUpdate", !.document = document]]
  /\ UNCHANGED <<docs, cloud, unused, now, authVars>>

\* mutant: an update that matches no record inserts the document it was given
NoMatch_Upsert(id, document) == docs @@ (id :> document)

\* the records after an update whose filter { _id: id } matches none: neither
\* save() nor findByIdAndUpdate (no upsert option) inserts one
NoMatch(id, document) == docs

\* mutant: the stored document is replaced by one made of the body's fields
FindByIdAndUpdate_Replace(stored, body) ==
  [stored EXCEPT !.title = body.title, !.description = body.description,
                 !.documentType = body.documentType, !.sharedWith = << >>,
                 !.updatedAt = now]

\* the stored document after { $set: { title, description, documentType,
\* updatedAt } }
FindByIdAndUpdate(stored, body) ==
  [stored EXCEPT !.title = body.title, !.description = body.description,
                 !.documentType = body.documentType, !.updatedAt = now]

\* the awaited Document.findByIdAndUpdate(id, { title, description, documentType,
\* updatedAt }, { new: true, runValidators: true }): a validator's error, or the
\* null it returns for a missing document (document._id then throws), ends in the
\* outer catch
updateDocument_findByIdAndUpdate(r) ==
  /\ req[r].pc = "findByIdAndUpdate"
  /\ LET rq == req[r] IN
     IF ~SchemaValid(rq.body)
     THEN /\ req' = [req EXCEPT ![r] = Respond(rq, 500, "Server error")]
          /\ UNCHANGED docs
     ELSE IF rq.id \notin DOMAIN docs
     THEN /\ req' = [req EXCEPT ![r] = Respond(rq, 500, "Server error")]
          /\ docs' = NoMatch(rq.id, FindByIdAndUpdate(rq.document, rq.body))
     ELSE LET document == FindByIdAndUpdate(docs[rq.id], rq.body) IN
          /\ docs' = [docs EXCEPT ![rq.id] = document]
          /\ req' = [req EXCEPT ![r] =
               [Respond(rq, 200, "") EXCEPT !.document = document]]
  /\ UNCHANGED <<cloud, unused, now, authVars>>

(* ---------------------------- deleteDocument -------------------------- *)

\* the awaited Document.findById and the owner check
deleteDocument(r, user, id) ==
  /\ Free(r)
  /\ LET rq == [Idle EXCEPT !.op = "deleteDocument", !.user = user, !.id = id] IN
       IF id \notin DOMAIN docs
       THEN req' = [req EXCEPT ![r] = Respond(rq, 404, "Document not found")]
       ELSE LET document == docs[id] IN
            IF ~IsOwner(document, user)
            THEN req' = [req EXCEPT ![r] =
                   Respond(rq, 403, "Not authorized to delete this document")]
            ELSE req' = [req EXCEPT ![r] =
                   [rq EXCEPT !.pc = "destroy", !.document = document]]
  /\ UNCHANGED <<docs, cloud, unused, now, authVars>>

\* the awaited cloudinary.uploader.destroy(document.publicId): it resolves (the
\* object is gone afterwards) or rejects (the content store or the network
\* failed), and a rejection ends in the outer catch
deleteDocument_destroy(r) ==
  /\ req[r].pc = "destroy"
  /\ \E resolved \in BOOLEAN :
       LET rq == req[r] IN
       IF resolved
       THEN /\ cloud' = cloud \ {rq.document.publicId}
            /\ req' = [req EXCEPT ![r] = [rq EXCEPT !.pc = "deleteOne"]]
       ELSE /\ req' = [req EXCEPT ![r] = Respond(rq, 500, "Server error")]
            /\ UNCHANGED cloud
  /\ UNCHANGED <<docs, unused, now, authVars>>

\* mutant: the record is kept
DeleteOne_Keep(id) == docs

\* the collection after document.deleteOne()
DeleteOne(id) == [d \in DOMAIN docs \ {id} |-> docs[d]]

\* the awaited document.deleteOne()
deleteDocument_deleteOne(r) ==
  /\ req[r].pc = "deleteOne"
  /\ docs' = DeleteOne(req[r].id)
  /\ req' = [req EXCEPT ![r] = Respond(req[r], 200, "")]
  /\ UNCHANGED <<cloud, unused, now, authVars>>

(* ------------------------- Mongoose document.save() ------------------- *)
(* save() of a loaded document sends only what changed since it was loaded *)
(* (the delta), as one atomic updateOne on the stored document:            *)
(*   - sharedWith.push(e)  is sent as $push, with $inc __v and no          *)
(*     condition on __v;                                                   *)
(*   - sharedWith[i].accessLevel = x  is sent as a positional $set, under  *)
(*     the condition that __v is still the loaded one;                     *)
(*   - sharedWith.splice(i, 1)  is sent as $set of the whole array, under  *)
(*     the same condition, with $inc __v.                                  *)
(* The pre('save') hook of models/Document.js sets updatedAt before each.  *)
(* An update that matches no stored document throws (VersionError or       *)
(* DocumentNotFoundError) into the handler's catch.                        *)

\* mutant: the entry is put in front of the others
SavePush_Unshift(stored, entry) ==
  [stored EXCEPT !.sharedWith = <<entry>> \o @, !.v = @ + 1, !.updatedAt = now]

\* the stored document after { $push: { sharedWith: entry }, $inc: { __v: 1 } }
SavePush(stored, entry) ==
  [stored EXCEPT !.sharedWith = Append(@, entry), !.v = @ + 1, !.updatedAt = now]

\* mutant: the new level is not written
SaveSetAccessLevel_Lost(stored, index, accessLevel) ==
  [stored EXCEPT !.updatedAt = now]

\* mutant: the level is written to every entry
SaveSetAccessLevel_All(stored, index, accessLevel) ==
  [stored EXCEPT !.sharedWith = [i \in DOMAIN @ |-> [@[i] EXCEPT !.accessLevel = accessLevel]],
                 !.updatedAt = now]

\* the stored document after { $set: { 'sharedWith.<index>.accessLevel': x } }
SaveSetAccessLevel(stored, index, accessLevel) ==
  [stored EXCEPT !.sharedWith[index].accessLevel = accessLevel, !.updatedAt = now]

\* the stored document after { $set: { sharedWith: array }, $inc: { __v: 1 } }
SaveSetArray(stored, array) ==
  [stored EXCEPT !.sharedWith = array, !.v = @ + 1, !.updatedAt = now]

\* the stored document after { $set: { updatedAt } } (nothing else was modified)
SaveTouch(stored) == [stored EXCEPT !.updatedAt = now]

\* the update's condition { __v: <the loaded __v> }
VersionMatches(stored, document) == stored.v = document.v

\* requests in flight that will increment __v of document id when they save
PendingIncrements(id) ==
  Cardinality({q \in Slots : /\ req[q].id = id
                             /\ req[q].pc \in {"findUser", "save"}
                             /\ req[q].op \in {"shareDocument", "removeSharing"}})

\* __v is unbounded: a request that may increment it starts only below the bound
BelowMaxVersion(id) ==
  id \in DOMAIN docs => docs[id].v + PendingIncrements(id) < MaxVersion

(* ---------------------------- shareDocument --------------------------- *)

\* mutant: the check never finds an entry
AlreadyShared_Never(document, user) == FALSE

\* document.sharedWith.find(share => share.user && share.user === user._id)
AlreadyShared(document, user) ==
  \E i \in DOMAIN document.sharedWith : document.sharedWith[i].user = user

\* mutant: sharing with oneself is not refused
SelfShare_Never(user, requester) == FALSE

\* user._id.toString() === req.user._id.toString()
SelfShare(user, requester) == user = requester

\* validation, the awaited Document.findById and the owner check
shareDocument(r, user, id, email, accessLevel) ==
  /\ Free(r)
  /\ LET rq == [Idle EXCEPT !.op = "shareDocument", !.user = user, !.id = id,
                              !.email = email, !.accessLevel = accessLevel] IN
       /\ BelowMaxVersion(id)
       /\ IF ~IsEmail(email) \/ ~AccessLevelValid(accessLevel)
          THEN req' = [req EXCEPT ![r] = Respond(rq, 400, "Validation failed")]
          ELSE IF id \notin DOMAIN docs
          THEN req' = [req EXCEPT ![r] = Respond(rq, 404, "Document not found")]
          ELSE LET document == docs[id] IN
               IF ~IsOwner(document, user)
               THEN req' = [req EXCEPT ![r] =
                      Respond(rq, 403, "Not authorized to share this document")]
               ELSE req' = [req EXCEPT ![r] =
                      [rq EXCEPT !.pc = "findUser", !.document = document]]
  /\ UNCHANGED <<docs, cloud, unused, now, authVars>>

\* the awaited User.findOne({ email }), the self-share and already-shared checks
\* and document.sharedWith.push({ user, accessLevel, sharedAt: Date.now() })
shareDocument_findUser(r) ==
  /\ req[r].pc = "findUser"
  /\ LET rq == req[r]
         user == FindUserByEmail(rq.email)
     IN IF user = NoUser
        THEN req' = [req EXCEPT ![r] = Respond(rq, 404, "User not found")]
        ELSE IF SelfShare(user, rq.user)
        THEN req' = [req EXCEPT ![r] =
               Respond(rq, 400, "Cannot share document with yourself")]
        ELSE IF AlreadyShared(rq.document, user)
        THEN req' = [req EXCEPT ![r] =
               Respond(rq, 400, "Document already shared with this user")]
        ELSE req' = [req EXCEPT ![r] =
               [rq EXCEPT !.pc = "save", !.userId = user,
                          !.document.sharedWith = Append(@,
                             [user |-> user, accessLevel |-> rq.accessLevel,
                              sharedAt |-> now])]]
  /\ UNCHANGED <<docs, cloud, unused, now, authVars>>

\* the awaited document.save() of the pushed entry
shareDocument_save(r) ==
  /\ req[r].pc = "save"
  /\ req[r].op = "shareDocument"
  /\ LET rq == req[r]
         document == rq.document
     IN IF rq.id \notin DOMAIN docs
        THEN /\ req' = [req EXCEPT ![r] = Respond(rq, 500, "Server error")]
             /\ docs' = NoMatch(rq.id, document)
        ELSE /\ docs' = [docs EXCEPT ![rq.id] =
                  SavePush(@, document.sharedWith[Len(document.sharedWith)])]
             /\ req' = [req EXCEPT ![r] =
                  [Respond(rq, 200, "Document shared") EXCEPT
                     !.document = [document EXCEPT !.v = @ + 1, !.updatedAt = now]]]
  /\ UNCHANGED <<cloud, unused, now, authVars>>

(* ---------------------------- getSharedUsers -------------------------- *)

\* the loop over document.sharedWith: User.findById(share.user).select('name email')
\* and, for a user found, { user: { _id, email }, accessLevel, sharedAt }
SharedUsers(document) ==
  LET found == SelectSeq(document.sharedWith, LAMBDA share : share.user \in Users)
  IN [i \in DOMAIN found |->
        [ user |-> [id |-> found[i].user, email |-> EmailOf[found[i].user]],
          accessLevel |-> found[i].accessLevel, sharedAt |-> found[i].sharedAt ]]

getSharedUsers(r, user, id) ==
  /\ Free(r)
  /\ LET rq == [Idle EXCEPT !.op = "getSharedUsers", !.user = user, !.id = id] IN
       IF id \notin DOMAIN docs
       THEN req' = [req EXCEPT ![r] = Respond(rq, 404, "Document not found")]
       ELSE LET document == docs[id]
                isOwner == IsOwner(document, user)
                isShared == IsShared(document, user)
            IN IF ~isOwner /\ ~isShared
               THEN req' = [req EXCEPT ![r] =
                      Respond(rq, 403, "Not authorized to view this document")]
               ELSE req' = [req EXCEPT ![r] =
                      [Respond(rq, 200, "") EXCEPT !.data = SharedUsers(document)]]
  /\ UNCHANGED <<docs, cloud, unused, now, authVars>>

\* the handlers routes/documents.js imports from the controller and mounts
Routes ==
  { "uploadDocument", "getMyDocuments", "getSharedDocuments", "getDocument",
    "updateDocument", "deleteDocument", "shareDocument", "updateSharing",
    "removeSharing" }

\* GET /:id/shared by an authenticated user: the router mounts no handler for
\* this path ('/:id' matches one segment only and '/shared' has no parameter),
\* so the request falls through the router and the app to Express's 404
listShares(r, user, id) ==
  IF "getSharedUsers" \in Routes
  THEN getSharedUsers(r, user, id)
  ELSE /\ Free(r)
       /\ req' = [req EXCEPT ![r] =
            Respond([Idle EXCEPT !.op = "listShares", !.user = user, !.id = id],
                    404, "Cannot GET /api/documents/:id/shared")]
       /\ UNCHANGED <<docs, cloud, unused, now, authVars>>

(* ---------------------------- updateSharing --------------------------- *)

\* validation, the awaited Document.findById, the owner check, findIndex and
\* document.sharedWith[shareIndex].accessLevel = accessLevel
updateSharing(r, user, id, userId, accessLevel) ==
  /\ Free(r)
  /\ LET rq == [Idle EXCEPT !.op = "updateSharing", !.user = user, !.id = id,
                              !.userId = userId, !.accessLevel = accessLevel] IN
       IF ~AccessLevelValid(accessLevel)
       THEN req' = [req EXCEPT ![r] = Respond(rq, 400, "Validation failed")]
       ELSE IF id \notin DOMAIN docs
       THEN req' = [req EXCEPT ![r] = Respond(rq, 404, "Document not found")]
       ELSE LET document == docs[id]
                shareIndex == ShareIndex(document, userId)
            IN IF ~IsOwner(document, user)
               THEN req' = [req EXCEPT ![r] =
                      Respond(rq, 403, "Not authorized to update sharing for this document")]
               ELSE IF shareIndex = 0
               THEN req' = [req EXCEPT ![r] =
                      Respond(rq, 404, "Document not shared with this user")]
               ELSE req' = [req EXCEPT ![r] =
                      [rq EXCEPT !.pc = "save", !.document = document,
                                 !.data = <<shareIndex>>]]
  /\ UNCHANGED <<docs, cloud, unused, now, authVars>>

\* the awaited document.save(): assigning the level the entry already has
\* modifies nothing, and save() then sends only the hook's updatedAt
updateSharing_save(r) ==
  /\ req[r].pc = "save"
  /\ req[r].op = "updateSharing"
  /\ LET rq == req[r]
         document == rq.document
         shareIndex == rq.data[1]
         modified == document.sharedWith[shareIndex].accessLevel # rq.accessLevel
     IN IF rq.id \notin DOMAIN docs
        THEN /\ req' = [req EXCEPT ![r] = Respond(rq, 500, "Server error")]
             /\ docs' = NoMatch(rq.id, document)
        ELSE IF ~modified
        THEN /\ docs' = [docs EXCEPT ![rq.id] = SaveTouch(@)]
             /\ req' = [req EXCEPT ![r] =
                  [Respond(rq, 200, "Sharing permissions updated") EXCEPT
                     !.document = [document EXCEPT !.updatedAt = now]]]
        ELSE IF ~VersionMatches(docs[rq.id], document)
        THEN /\ req' = [req EXCEPT ![r] = Respond(rq, 500, "Server error")]
             /\ UNCHANGED docs
        ELSE /\ docs' = [docs EXCEPT ![rq.id] =
                  SaveSetAccessLevel(@, shareIndex, rq.accessLevel)]
             /\ req' = [req EXCEPT ![r] =
                  [Respond(rq, 200, "Sharing permissions updated") EXCEPT
                     !.document = [document EXCEPT
                        !.sharedWith[shareIndex].accessLevel = rq.accessLevel,
                        !.updatedAt = now]]]
  /\ UNCHANGED <<cloud, unused, now, authVars>>

(* ---------------------------- removeSharing --------------------------- *)

\* the awaited Document.findById, the owner check, findIndex and
\* document.sharedWith.splice(shareIndex, 1)
removeSharing(r, user, id, userId) ==
  /\ Free(r)
  /\ LET rq == [Idle EXCEPT !.op = "removeSharing", !.user = user, !.id = id,
                              !.userId = userId] IN
       /\ BelowMaxVersion(id)
       /\ IF id \notin DOMAIN docs
          THEN req' = [req EXCEPT ![r] = Respond(rq, 404, "Document not found")]
          ELSE LET document == docs[id]
                   shareIndex == ShareIndex(document, userId)
               IN IF ~IsOwner(document, user)
                  THEN req' = [req EXCEPT ![r] =
                         Respond(rq, 403, "Not authorized to remove sharing for this document")]
                  ELSE IF shareIndex = 0
                  THEN req' = [req EXCEPT ![r] =
                         Respond(rq, 404, "Document not shared with this user")]
                  ELSE req' = [req EXCEPT ![r] =
                         [rq EXCEPT !.pc = "save",
                                    !.document = [document EXCEPT
                                       !.sharedWith = Splice(@, shareIndex)]]]
  /\ UNCHANGED <<docs, cloud, unused, now, authVars>>

\* the awaited document.save() of the spliced array
removeSharing_save(r) ==
  /\ req[r].pc = "save"
  /\ req[r].op = "removeSharing"
  /\ LET rq == req[r]
         document == rq.document
     IN IF rq.id \notin DOMAIN docs
        THEN /\ req' = [req EXCEPT ![r] = Respond(rq, 500, "Server error")]
             /\ docs' = NoMatch(rq.id, document)
        ELSE IF ~VersionMatches(docs[rq.id], document)
        THEN /\ req' = [req EXCEPT ![r] = Respond(rq, 500, "Server error")]
             /\ UNCHANGED docs
        ELSE /\ docs' = [docs EXCEPT ![rq.id] = SaveSetArray(@, document.sharedWith)]
             /\ req' = [req EXCEPT ![r] =
                  [Respond(rq, 200, "Sharing removed") EXCEPT
                     !.document = [document EXCEPT !.v = @ + 1, !.updatedAt = now]]]
  /\ UNCHANGED <<cloud, unused, now, authVars>>

(* ------------------------------- system ------------------------------- *)

\* who uploads: the users differ in nothing but their names, so one of them
\* stands for the owner of the documents and the others for everybody else
Uploaders == {"alice"}

\* what requests carry
Inputs ==
  [ users |-> Users, uploaders |-> Uploaders, emails |-> Emails,
    userIds |-> UserIdParams, accessLevels |-> AccessLevelInputs, bodies |-> Bodies, files |-> BOOLEAN ]

\* a request arrives in slot r with its parameters and body from `in`, or the
\* request in slot r takes its next step
Handle(r, in) ==
  \/ \E user \in in.users, id \in DocIds : getDocument(r, user, id)
  \/ \E user \in in.uploaders, body \in in.bodies, file \in in.files :
       uploadDocument(r, user, body, file)
  \/ uploadDocument_create(r)
  \/ \E user \in in.users, id \in DocIds, body \in in.bodies :
       updateDocument(r, user, id, body)
  \/ updateDocument_findByIdAndUpdate(r)
  \/ \E user \in in.users, id \in DocIds : deleteDocument(r, user, id)
  \/ deleteDocument_destroy(r)
  \/ deleteDocument_deleteOne(r)
  \/ \E user \in in.users, id \in DocIds, email \in in.emails,
        accessLevel \in in.accessLevels :
       shareDocument(r, user, id, email, accessLevel)
  \/ shareDocument_findUser(r)
  \/ shareDocument_save(r)
  \/ \E user \in in.users, id \in DocIds : listShares(r, user, id)
  \/ \E user \in in.users, id \in DocIds, userId \in in.userIds,
        accessLevel \in in.accessLevels :
       updateSharing(r, user, id, userId, accessLevel)
  \/ updateSharing_save(r)
  \/ \E user \in in.users, id \in DocIds, userId \in in.userIds :
       removeSharing(r, user, id, userId)
  \/ removeSharing_save(r)

\* the server: requests arrive at any time and their handlers interleave at
\* their awaits
Next ==
  \/ Tick
  \/ \E r \in Slots : Handle(r, Inputs)

Spec == Init /\ [][Next]_vars

\* requests one at a time: each has answered before the next arrives
SeqNext ==
  \/ Tick
  \/ Handle(1, Inputs)

SeqSpec == Init /\ [][SeqNext]_vars

\* two requests at a time, well-formed, by the owner-to-be alice and by bob,
\* within one reading of the clock
RaceInputs ==
  [ users |-> {"alice", "bob"}, uploaders |-> Uploaders,
    emails |-> {"bob@x.com"}, userIds |-> {"bob"},
    accessLevels |-> {"view", "edit"},
    bodies |-> {[title |-> "t1", description |-> "x1", documentType |-> "Passport"]},
    files |-> {TRUE} ]

RaceNext == \E r \in Slots : Handle(r, RaceInputs)

RaceSpec == Init /\ [][RaceNext]_vars

(* ======================================================================= *)
(*               the auth controller (controllers/auth.js)                 *)
(* ======================================================================= *)

\* time passes for the auth and user routes
AuthTick ==
  /\ now < MaxAuthTime
  /\ now' = now + 1
  /\ UNCHANGED <<docVars, authVars>>

(* ------------------------------- register ----------------------------- *)

\* validation and the awaited User.findOne({ email })
register(r, name, email, password) ==
  /\ AuthFree(r)
  /\ LET rq == [AuthIdle EXCEPT !.op = "register", !.name = name, !.email = email,
                                  !.password = password] IN
       IF name = "" \/ ~IsEmail(email) \/ ~PasswordValid(password)
       THEN areq' = [areq EXCEPT ![r] = AuthRespond(rq, 400, "Validation failed")]
       ELSE IF FindOne(email) # NoIdentity
       THEN areq' = [areq EXCEPT ![r] = AuthRespond(rq, 400, "Email already registered")]
       ELSE areq' = [areq EXCEPT ![r] = [rq EXCEPT !.pc = "create"]]
  /\ UNCHANGED <<docVars, now, identities, outbox, tokens>>

\* the awaited User.create({ name, email, password }): the unique index rejects a
\* second user with the address (the error ends in the catch); a created user is
\* unverified and has no code.  Then user.generateOTP().
register_create(r) ==
  /\ areq[r].pc = "create"
  /\ LET rq == areq[r] IN
     IF ~EmailIsFree(rq.email)
     THEN /\ areq' = [areq EXCEPT ![r] = AuthRespond(rq, 500, "Server error")]
          /\ UNCHANGED identities
     ELSE /\ DOMAIN identities # UserIds
          /\ \E code \in Codes :
               LET user == [ id |-> NextUserId, name |-> rq.name, email |-> rq.email,
                             password |-> Hash(rq.password), isVerified |-> FALSE,
                             otp |-> NoOtp ]
               IN /\ identities' = identities @@ (user.id :> user)
                  /\ areq' = [areq EXCEPT ![r] =
                       [rq EXCEPT !.pc = "save", !.user = GenerateOTP(user, code),
                                  !.code = code]]
  /\ UNCHANGED <<docVars, now, outbox, tokens>>

\* mutant: save() writes the whole loaded user back
SaveOtp_WholeUser(stored, user) == user

\* mutant: the generated code is not stored
SaveOtp_Lost(stored, user) == stored

\* the stored user after save() of a generated code: { $set: { otp } }
SaveOtp(stored, user) == [stored EXCEPT !.otp = user.otp]

\* the awaited user.save() of the generated code
register_save(r) ==
  /\ areq[r].pc = "save"
  /\ areq[r].op = "register"
  /\ identities' = [identities EXCEPT ![areq[r].user.id] = SaveOtp(@, areq[r].user)]
  /\ areq' = [areq EXCEPT ![r].pc = "sendOTPEmail"]
  /\ UNCHANGED <<docVars, now, outbox, tokens>>

\* the awaited sendOTPEmail(email, name, otp): true when the mail went out
register_sendOTPEmail(r) ==
  /\ areq[r].pc = "sendOTPEmail"
  /\ areq[r].op = "register"
  /\ \E emailSent \in BOOLEAN :
       IF emailSent
       THEN /\ outbox' = Deliver(areq[r].email, areq[r].code)
            /\ areq' = [areq EXCEPT ![r] = AuthRespond(areq[r], 201, "Registration successful")]
       ELSE /\ areq' = [areq EXCEPT ![r] =
                 AuthRespond(areq[r], 500, "Failed to send verification email")]
            /\ UNCHANGED outbox
  /\ UNCHANGED <<docVars, now, identities, tokens>>

(* ------------------------------- verifyOTP ---------------------------- *)

\* mutant: the flag is not looked at
AlreadyVerified_Never(user) == FALSE

\* user.isVerified, as verifyOTP and resendOTP read it
AlreadyVerified(user) == user.isVerified

\* mutant: any code passes
OtpMatches_Any(user, otp) == TRUE

\* user.otp.code === otp
OtpMatches(user, otp) == user.otp.code = otp

\* mutant: a code never expires
OtpExpired_Never(user) == FALSE

\* user.otp.expiry < Date.now()
OtpExpired(user) == user.otp.expiry < now

\* user.otp && user.otp.code
OtpPending(user) == user.otp # NoOtp /\ user.otp.code # ""

\* validation, the awaited User.findOne({ email }), the checks, and
\* user.isVerified = true; user.otp = undefined
verifyOTP(r, email, otp) ==
  /\ AuthFree(r)
  /\ LET rq == [AuthIdle EXCEPT !.op = "verifyOTP", !.email = email, !.otp = otp]
         user == FindOne(email)
     IN IF ~IsEmail(email) \/ ~OtpValid(otp)
        THEN areq' = [areq EXCEPT ![r] = AuthRespond(rq, 400, "Validation failed")]
        ELSE IF user = NoIdentity
        THEN areq' = [areq EXCEPT ![r] = AuthRespond(rq, 404, "User not found")]
        ELSE IF AlreadyVerified(user)
        THEN areq' = [areq EXCEPT ![r] = AuthRespond(rq, 400, "Email already verified")]
        ELSE IF ~OtpPending(user)
        THEN areq' = [areq EXCEPT ![r] =
               AuthRespond(rq, 400, "No OTP generated for this user")]
        ELSE IF OtpExpired(user)
        THEN areq' = [areq EXCEPT ![r] = AuthRespond(rq, 400, "OTP expired")]
        ELSE IF ~OtpMatches(user, otp)
        THEN areq' = [areq EXCEPT ![r] = AuthRespond(rq, 400, "Invalid OTP")]
        ELSE areq' = [areq EXCEPT ![r] =
               [rq EXCEPT !.pc = "save",
                          !.user = [user EXCEPT !.isVerified = TRUE, !.otp = NoOtp]]]
  /\ UNCHANGED <<docVars, now, identities, outbox, tokens>>

\* mutant: the code is not cleared
SaveVerified_KeepOtp(stored) == [stored EXCEPT !.isVerified = TRUE]

\* the stored user after save() of a verification:
\* { $set: { isVerified: true }, $unset: { otp } }
SaveVerified(stored) == [stored EXCEPT !.isVerified = TRUE, !.otp = NoOtp]

\* the awaited user.save() and sendTokenResponse(user, 200, res)
verifyOTP_save(r) ==
  /\ areq[r].pc = "save"
  /\ areq[r].op = "verifyOTP"
  /\ LET rq == areq[r]
         answer == SendTokenResponse(rq, rq.user)
     IN /\ identities' = [identities EXCEPT ![rq.user.id] = SaveVerified(@)]
        /\ areq' = [areq EXCEPT ![r] = answer]
        /\ tokens' = Issue(answer.issued)
  /\ UNCHANGED <<docVars, now, outbox>>

(* ------------------------------- resendOTP ---------------------------- *)

\* validation, the awaited User.findOne({ email }), the checks and
\* user.generateOTP()
resendOTP(r, email) ==
  /\ AuthFree(r)
  /\ \E code \in Codes :
       LET rq == [AuthIdle EXCEPT !.op = "resendOTP", !.email = email]
           user == FindOne(email)
       IN IF ~IsEmail(email)
          THEN areq' = [areq EXCEPT ![r] = AuthRespond(rq, 400, "Validation failed")]
          ELSE IF user = NoIdentity
          THEN areq' = [areq EXCEPT ![r] = AuthRespond(rq, 404, "User not found")]
          ELSE IF AlreadyVerified(user)
          THEN areq' = [areq EXCEPT ![r] = AuthRespond(rq, 400, "Email already verified")]
          ELSE areq' = [areq EXCEPT ![r] =
                 [rq EXCEPT !.pc = "save", !.user = GenerateOTP(user, code),
                            !.code = code]]
  /\ UNCHANGED <<docVars, now, identities, outbox, tokens>>

\* the awaited user.save() of the generated code
resendOTP_save(r) ==
  /\ areq[r].pc = "save"
  /\ areq[r].op = "resendOTP"
  /\ identities' = [identities EXCEPT ![areq[r].user.id] = SaveOtp(@, areq[r].user)]
  /\ areq' = [areq EXCEPT ![r].pc = "sendOTPEmail"]
  /\ UNCHANGED <<docVars, now, outbox, tokens>>

\* the awaited sendOTPEmail(email, user.name, otp)
resendOTP_sendOTPEmail(r) ==
  /\ areq[r].pc = "sendOTPEmail"
  /\ areq[r].op = "resendOTP"
  /\ \E emailSent \in BOOLEAN :
       IF emailSent
       THEN /\ outbox' = Deliver(areq[r].email, areq[r].code)
            /\ areq' = [areq EXCEPT ![r] =
                 AuthRespond(areq[r], 200, "OTP has been sent to your email address")]
       ELSE /\ areq' = [areq EXCEPT ![r] =
                 AuthRespond(areq[r], 500, "Failed to send verification email")]
            /\ UNCHANGED outbox
  /\ UNCHANGED <<docVars, now, identities, tokens>>

(* --------------------------------- login ------------------------------ *)

\* mutant: the verification flag is not looked at
LoginAllowed_Always(user) == TRUE

\* user.isVerified, as login reads it
LoginAllowed(user) == user.isVerified

\* validation, the awaited User.findOne({ email }).select('+password') and the
\* verification check
login(r, email, password) ==
  /\ AuthFree(r)
  /\ LET rq == [AuthIdle EXCEPT !.op = "login", !.email = email, !.password = password]
         user == FindOne(email)
     IN IF ~IsEmail(email)
        THEN areq' = [areq EXCEPT ![r] = AuthRespond(rq, 400, "Validation failed")]
        ELSE IF user = NoIdentity
        THEN areq' = [areq EXCEPT ![r] = AuthRespond(rq, 401, "Invalid credentials")]
        ELSE IF ~LoginAllowed(user)
        THEN areq' = [areq EXCEPT ![r] =
               AuthRespond(rq, 401, "Please verify your email before logging in")]
        ELSE areq' = [areq EXCEPT ![r] = [rq EXCEPT !.pc = "matchPassword", !.user = user]]
  /\ UNCHANGED <<docVars, now, identities, outbox, tokens>>

\* the awaited user.matchPassword(password) and sendTokenResponse(user, 200, res)
login_matchPassword(r) ==
  /\ areq[r].pc = "matchPassword"
  /\ areq[r].op = "login"
  /\ LET rq == areq[r]
         answer == SendTokenResponse(rq, rq.user)
     IN IF ~MatchPassword(rq.password, rq.user.password)
        THEN /\ areq' = [areq EXCEPT ![r] = AuthRespond(rq, 401, "Invalid credentials")]
             /\ UNCHANGED tokens
        ELSE /\ areq' = [areq EXCEPT ![r] = answer]
             /\ tokens' = Issue(answer.issued)
  /\ UNCHANGED <<docVars, now, identities, outbox>>

(* ======================================================================= *)
(*        the access guard (middleware/auth.js) and the user routes        *)
(* ======================================================================= *)

\* mutant: the verification flag of the live user is not looked at
GuardVerified_Always(user) == TRUE

\* mutant: the test of the flag is inverted
GuardVerified_Inverted(user) == ~user.isVerified

\* user.isVerified, as protect reads it
GuardVerified(user) == user.isVerified

\* protect: the token of the Authorization header, jwt.verify, the awaited
\* User.findById(decoded.id) and the checks.  The result is the 401 it answers,
\* or status 0 and the user it attaches to the request before next().
Protect(token) ==
  LET user == FindById(token.id) IN
  IF token = NoToken
  THEN [status |-> 401, message |-> "Not authorized to access this route", user |-> NoIdentity]
  ELSE IF ~JwtVerify(token)
  THEN [status |-> 401, message |-> "Not authorized to access this route", user |-> NoIdentity]
  ELSE IF user = NoIdentity
  THEN [status |-> 401, message |-> "User not found", user |-> NoIdentity]
  ELSE IF ~GuardVerified(user)
  THEN [status |-> 401, message |-> "Please verify your email to access this route",
        user |-> NoIdentity]
  ELSE [status |-> 0, message |-> "", user |-> user]

\* the request as the handler behind protect finds it: req.user is attached
Attach(rq, user) == [rq EXCEPT !.reqUser = user.id]

\* GET /api/auth/me: protect, then getMe up to its awaited User.findById
getMe(r, token) ==
  /\ AuthFree(r)
  /\ LET rq == [AuthIdle EXCEPT !.op = "getMe", !.token = token]
         guard == Protect(token)
     IN IF guard.status # 0
        THEN areq' = [areq EXCEPT ![r] = AuthRespond(rq, guard.status, guard.message)]
        ELSE areq' = [areq EXCEPT ![r] = [Attach(rq, guard.user) EXCEPT !.pc = "findById"]]
  /\ UNCHANGED <<docVars, now, identities, outbox, tokens>>

\* the awaited User.findById(req.user.id); user._id of null throws into the catch
getMe_findById(r) ==
  /\ areq[r].pc = "findById"
  /\ areq[r].op = "getMe"
  /\ LET rq == areq[r]
         user == FindById(rq.reqUser)
     IN IF user = NoIdentity
        THEN areq' = [areq EXCEPT ![r] = AuthRespond(rq, 500, "Server error")]
        ELSE areq' = [areq EXCEPT ![r] =
               [AuthRespond(rq, 200, "") EXCEPT !.email = user.email]]
  /\ UNCHANGED <<docVars, now, identities, outbox, tokens>>

\* GET /api/users/profile: protect, then the route answers from req.user
profile(r, token) ==
  /\ AuthFree(r)
  /\ LET rq == [AuthIdle EXCEPT !.op = "profile", !.token = token]
         guard == Protect(token)
     IN IF guard.status # 0
        THEN areq' = [areq EXCEPT ![r] = AuthRespond(rq, guard.status, guard.message)]
        ELSE areq' = [areq EXCEPT ![r] =
               [AuthRespond(Attach(rq, guard.user), 200, "") EXCEPT
                  !.email = guard.user.email]]
  /\ UNCHANGED <<docVars, now, identities, outbox, tokens>>

\* PUT /api/users/profile: protect, then updateProfile's validation
updateProfile(r, token, name) ==
  /\ AuthFree(r)
  /\ LET rq == [AuthIdle EXCEPT !.op = "updateProfile", !.token = token, !.name = name]
         guard == Protect(token)
     IN IF guard.status # 0
        THEN areq' = [areq EXCEPT ![r] = AuthRespond(rq, guard.status, guard.message)]
        ELSE IF name = ""
        THEN areq' = [areq EXCEPT ![r] =
               AuthRespond(Attach(rq, guard.user), 400, "Validation failed")]
        ELSE areq' = [areq EXCEPT ![r] =
               [Attach(rq, guard.user) EXCEPT !.pc = "findByIdAndUpdate"]]
  /\ UNCHANGED <<docVars, now, identities, outbox, tokens>>

\* the awaited User.findByIdAndUpdate(req.user._id, { name }, ...); user._id of
\* null throws into the catch
updateProfile_findByIdAndUpdate(r) ==
  /\ areq[r].pc = "findByIdAndUpdate"
  /\ LET rq == areq[r] IN
     IF rq.reqUser \notin DOMAIN identities
     THEN /\ areq' = [areq EXCEPT ![r] = AuthRespond(rq, 500, "Server error")]
          /\ UNCHANGED identities
     ELSE /\ identities' = [identities EXCEPT ![rq.reqUser].name = rq.name]
          /\ areq' = [areq EXCEPT ![r] =
               [AuthRespond(rq, 200, "") EXCEPT !.email = identities[rq.reqUser].email]]
  /\ UNCHANGED <<docVars, now, outbox, tokens>>

\* PUT /api/users/password: protect, then updatePassword's validation
updatePassword(r, token, currentPassword, newPassword) ==
  /\ AuthFree(r)
  /\ LET rq == [AuthIdle EXCEPT !.op = "updatePassword", !.token = token,
                                  !.password = currentPassword,
                                  !.newPassword = newPassword]
         guard == Protect(token)
     IN IF guard.status # 0
        THEN areq' = [areq EXCEPT ![r] = AuthRespond(rq, guard.status, guard.message)]
        ELSE IF currentPassword = "" \/ ~PasswordValid(newPassword)
        THEN areq' = [areq EXCEPT ![r] =
               AuthRespond(Attach(rq, guard.user), 400, "Validation failed")]
        ELSE areq' = [areq EXCEPT ![r] = [Attach(rq, guard.user) EXCEPT !.pc = "findById"]]
  /\ UNCHANGED <<docVars, now, identities, outbox, tokens>>

\* the awaited User.findById(req.user._id).select('+password')
updatePassword_findById(r) ==
  /\ areq[r].pc = "findById"
  /\ areq[r].op = "updatePassword"
  /\ LET rq == areq[r]
         user == FindById(rq.reqUser)
     IN IF user = NoIdentity
        THEN areq' = [areq EXCEPT ![r] = AuthRespond(rq, 404, "User not found")]
        ELSE areq' = [areq EXCEPT ![r] = [rq EXCEPT !.pc = "matchPassword", !.user = user]]
  /\ UNCHANGED <<docVars, now, identities, outbox, tokens>>

\* the awaited user.matchPassword(currentPassword)
updatePassword_matchPassword(r) ==
  /\ areq[r].pc = "matchPassword"
  /\ areq[r].op = "updatePassword"
  /\ LET rq == areq[r] IN
     IF ~MatchPassword(rq.password, rq.user.password)
     THEN areq' = [areq EXCEPT ![r] = AuthRespond(rq, 401, "Current password is incorrect")]
     ELSE areq' = [areq EXCEPT ![r].pc = "compare"]
  /\ UNCHANGED <<docVars, now, identities, outbox, tokens>>

\* the awaited bcrypt.compare(newPassword, user.password) and
\* user.password = newPassword
updatePassword_compare(r) ==
  /\ areq[r].pc = "compare"
  /\ LET rq == areq[r] IN
     IF MatchPassword(rq.newPassword, rq.user.password)
     THEN areq' = [areq EXCEPT ![r] = AuthRespond(rq, 400,
            "New password must be different from current password")]
     ELSE areq' = [areq EXCEPT ![r].pc = "save"]
  /\ UNCHANGED <<docVars, now, identities, outbox, tokens>>

\* the awaited user.save(): the hook hashes the new password,
\* { $set: { password } }
updatePassword_save(r) ==
  /\ areq[r].pc = "save"
  /\ areq[r].op = "updatePassword"
  /\ identities' = [identities EXCEPT ![areq[r].reqUser].password =
                      Hash(areq[r].newPassword)]
  /\ areq' = [areq EXCEPT ![r] = AuthRespond(areq[r], 200, "Password updated successfully")]
  /\ UNCHANGED <<docVars, now, outbox, tokens>>

(* ---------------------------- the auth system ------------------------- *)

\* tokens a client can present that this server did not issue in this run: none,
\* one with a bad signature, and tokens signed with JWT_SECRET for any user id,
\* run out or not (jwt.verify cannot tell who signed them)
OtherTokens ==
  {NoToken, [id |-> "u1", exp |-> MaxAuthTime + TokenTtl, signed |-> FALSE]}
    \cup {[id |-> id, exp |-> exp, signed |-> TRUE] :
            id \in UserIds, exp \in {0, MaxAuthTime + TokenTtl}}

\* what requests to the auth and user routes carry
AuthInputs ==
  [ names |-> {"n1", ""}, newNames |-> {"n2", ""},
    registrants |-> {"alice@x.com", "not-an-email"},
    emails |-> {"alice@x.com", "nobody@x.com", "not-an-email"},
    passwords |-> {"secret1", "short"}, logins |-> {"secret1", "secret2"},
    newPasswords |-> {"secret2", "short"},
    otps |-> Codes \cup {"12345"}, tokens |-> OtherTokens ]

\* a request arrives in slot r, or the request in slot r takes its next step
AuthHandle(r, in) ==
  \/ \E name \in in.names, email \in in.registrants, password \in in.passwords :
       register(r, name, email, password)
  \/ register_create(r)
  \/ register_save(r)
  \/ register_sendOTPEmail(r)
  \/ \E email \in in.emails, otp \in in.otps : verifyOTP(r, email, otp)
  \/ verifyOTP_save(r)
  \/ \E email \in in.emails : resendOTP(r, email)
  \/ resendOTP_save(r)
  \/ resendOTP_sendOTPEmail(r)
  \/ \E email \in in.emails, password \in in.logins : login(r, email, password)
  \/ login_matchPassword(r)
  \/ \E token \in Issued \cup in.tokens : getMe(r, token)
  \/ getMe_findById(r)
  \/ \E token \in Issued \cup in.tokens : profile(r, token)
  \/ \E token \in Issued \cup in.tokens, name \in in.newNames :
       updateProfile(r, token, name)
  \/ updateProfile_findByIdAndUpdate(r)
  \/ \E token \in Issued \cup in.tokens, currentPassword \in in.logins,
        newPassword \in in.newPasswords :
       updatePassword(r, token, currentPassword, newPassword)
  \/ updatePassword_findById(r)
  \/ updatePassword_matchPassword(r)
  \/ updatePassword_compare(r)
  \/ updatePassword_save(r)

\* the auth and user routes, requests one at a time
AuthSeqNext ==
  \/ AuthTick
  \/ AuthHandle(1, AuthInputs)

AuthSeqSpec == Init /\ [][AuthSeqNext]_vars

\* two requests at a time, well-formed, for one address, within one reading of
\* the clock
AuthRaceInputs ==
  [ names |-> {"n1"}, newNames |-> {"n2"},
    registrants |-> {"alice@x.com"}, emails |-> {"alice@x.com"},
    passwords |-> {"secret1"}, logins |-> {"secret1"},
    newPasswords |-> {"secret2"}, otps |-> Codes, tokens |-> {} ]

AuthRaceNext == \E r \in Slots : AuthHandle(r, AuthRaceInputs)

AuthRaceSpec == Init /\ [][AuthRaceNext]_vars

\* the awaited call of the request in slot r resolves or rejects and the handler
\* runs on
AuthContinue(r) ==
  \/ register_create(r) \/ register_save(r) \/ register_sendOTPEmail(r)
  \/ verifyOTP_save(r)
  \/ resendOTP_save(r) \/ resendOTP_sendOTPEmail(r)
  \/ login_matchPassword(r)
  \/ getMe_findById(r)
  \/ updateProfile_findByIdAndUpdate(r)
  \/ updatePassword_findById(r) \/ updatePassword_matchPassword(r)
  \/ updatePassword_compare(r) \/ updatePassword_save(r)

\* a resend arrives in slot r and passes its checks
ResendAccepted(r) ==
  \E email \in AuthRaceInputs.emails : resendOTP(r, email) /\ areq'[r].pc = "save"

\* a verify arrives in slot r and passes its checks: it carries the pending code
\* before its expiry
VerifyAccepted(r) ==
  \E email \in AuthRaceInputs.emails, otp \in AuthRaceInputs.otps :
    verifyOTP(r, email, otp) /\ areq'[r].pc = "save"

\* well-formed requests for one address, one at a time, as the clock advances
AuthLiveNext ==
  \/ AuthTick
  \/ AuthHandle(1, AuthRaceInputs)

\* every awaited call returns, and a user who can again and again ask for a
\* code, or verify with the pending one, does so in the end
AuthLiveSpec ==
  /\ Init /\ [][AuthLiveNext]_vars
  /\ WF_vars(AuthContinue(1))
  /\ SF_vars(ResendAccepted(1))
  /\ SF_vars(VerifyAccepted(1))

(* ======================================================================= *)
(*                               properties                                *)
(* ======================================================================= *)

\* slot r takes a step
Steps(r) == req'[r] # req[r]

\* a request for op arrives in slot r and runs to its first await or its answer
Arrives(r, op) == Free(r) /\ Steps(r) /\ req'[r].op = op

\* the request in slot r, waiting at pc, takes its next step
Resumes(r, op, pc) == req[r].op = op /\ req[r].pc = pc /\ Steps(r)

\* the request in slot r has been answered
Answered(r, op, status) ==
  req[r].pc = "done" /\ req[r].op = op /\ req[r].status = status

\* the access levels user holds in document's sharedWith
EntryLevels(document, user) ==
  { document.sharedWith[i].accessLevel :
      i \in {j \in DOMAIN document.sharedWith : document.sharedWith[j].user = user} }

\* the request body is one the route's validators and the schema accept
WellFormedBody(body) ==
  /\ body.title # ""
  /\ body.description # ""
  /\ body.documentType \in DocumentTypes

(* C1: two grant requests of the owner for the same document and user that  *)
(* run concurrently never both succeed: a grant that saves after another    *)
(* grant has stored an entry for the user is not answered 200, so no save   *)
(* of a grant appends an entry for a user the stored list already holds.    *)
C1_RacingGrantsNeverBothSucceed ==
  [][\A r \in Slots :
       (Resumes(r, "shareDocument", "save") /\ req'[r].status = 200)
         => \A i \in DOMAIN docs[req[r].id].sharedWith :
              docs[req[r].id].sharedWith[i].user # req[r].userId]_vars

(* C2: when requests run one at a time, every document's sharedWith holds   *)
(* at most one entry per user.                                              *)
C2_OneEntryPerUser ==
  \A id \in DOMAIN docs :
    \A i, j \in DOMAIN docs[id].sharedWith :
      docs[id].sharedWith[i].user = docs[id].sharedWith[j].user => i = j

\* a user was granted, revoked and granted again
C2_Witness ==
  \E id \in DOMAIN docs :
    /\ Len(docs[id].sharedWith) = 1
    /\ docs[id].v = 3
    /\ Answered(1, "shareDocument", 200)

(* C3: a grant for a user who already has an entry is answered 400          *)
(* "already shared" whatever level it asks for, and changes no document.    *)
C3_GrantNeverAltersExistingEntry ==
  [][\A r \in Slots :
       ( /\ Resumes(r, "shareDocument", "findUser")
         /\ req[r].id \in DOMAIN docs
         /\ \E u \in Users :
              /\ EmailOf[u] = req[r].email
              /\ EntryLevels(docs[req[r].id], u) # {} )
       => /\ req'[r].pc = "done"
          /\ req'[r].status = 400
          /\ req'[r].message = "Document already shared with this user"
          /\ docs' = docs]_vars

\* grant(D, U, edit) was refused while U's entry says view
C3_Witness ==
  /\ Answered(1, "shareDocument", 400)
  /\ req[1].message = "Document already shared with this user"
  /\ req[1].accessLevel = "edit"
  /\ req[1].id \in DOMAIN docs
  /\ \E u \in Users :
       /\ EmailOf[u] = req[1].email
       /\ EntryLevels(docs[req[1].id], u) = {"view"}

(* C4: a well-formed grant, modify or revoke on an existing document by a   *)
(* user who is not its owner is answered 403 at once and changes no         *)
(* document, whatever entry the user holds and whatever the target and the  *)
(* level asked for.                                                         *)
C4_SharingIsOwnerOnly ==
  [][\A r \in Slots :
       ( /\ Free(r) /\ Steps(r)
         /\ req'[r].op \in {"shareDocument", "updateSharing", "removeSharing"}
         /\ req'[r].op = "shareDocument" => req'[r].email # "not-an-email"
         /\ req'[r].op # "removeSharing" => req'[r].accessLevel \in {"view", "edit"}
         /\ req'[r].id \in DOMAIN docs
         /\ docs[req'[r].id].owner # req'[r].user )
       => /\ req'[r].pc = "done"
          /\ req'[r].status = 403
          /\ docs' = docs]_vars

\* a user with an edit entry asked to change another user's level and got 403
C4_Witness ==
  /\ Answered(1, "updateSharing", 403)
  /\ req[1].id \in DOMAIN docs
  /\ EntryLevels(docs[req[1].id], req[1].user) = {"edit"}
  /\ req[1].userId # req[1].user
  /\ EntryLevels(docs[req[1].id], req[1].userId) # {}

(* C5: an update with a well-formed body on an existing document goes on to *)
(* its write exactly when the requester is the owner or holds an edit       *)
(* entry, and the write then answers 200 with title, description and        *)
(* documentType set from the body; any other requester is answered 403 and  *)
(* no document changes.                                                     *)
C5_UpdateNeedsOwnerOrEdit ==
  [][\A r \in Slots :
       /\ ( /\ Arrives(r, "updateDocument")
            /\ WellFormedBody(req'[r].body)
            /\ req'[r].id \in DOMAIN docs )
          => LET document == docs[req'[r].id]
                 authorized == \/ document.owner = req'[r].user
                               \/ "edit" \in EntryLevels(document, req'[r].user)
             IN /\ docs' = docs
                /\ authorized => req'[r].pc = "findByIdAndUpdate"
                /\ ~authorized => req'[r].pc = "done" /\ req'[r].status = 403
       /\ ( /\ Resumes(r, "updateDocument", "findByIdAndUpdate")
            /\ WellFormedBody(req[r].body)
            /\ req[r].id \in DOMAIN docs )
          => /\ req'[r].pc = "done"
             /\ req'[r].status = 200
             /\ docs' = [docs EXCEPT ![req[r].id] =
                  [@ EXCEPT !.title = req[r].body.title,
                            !.description = req[r].body.description,
                            !.documentType = req[r].body.documentType,
                            !.updatedAt = now]]]_vars

\* a user who is not the owner and holds an edit entry has updated the document
C5_Witness ==
  /\ Answered(1, "updateDocument", 200)
  /\ req[1].id \in DOMAIN docs
  /\ docs[req[1].id].owner # req[1].user
  /\ EntryLevels(docs[req[1].id], req[1].user) = {"edit"}
  /\ docs[req[1].id].title = req[1].body.title

(* C6: a user's rights follow the stored entry.  A grant, a modify and a    *)
(* revoke that are saved leave the target with exactly the level asked for, *)
(* respectively with no entry; and a user who is not the owner gets the     *)
(* document (isOwner false) exactly while an entry for them is stored, and  *)
(* passes update's check exactly while that entry says edit, being answered *)
(* 403 otherwise.                                                           *)
C6_RightsFollowShareEntry ==
  [][\A r \in Slots :
       /\ Resumes(r, "shareDocument", "save")
          => /\ req'[r].status = 200
             /\ EntryLevels(docs'[req[r].id], req[r].userId) = {req[r].accessLevel}
       /\ Resumes(r, "updateSharing", "save")
          => /\ req'[r].status = 200
             /\ EntryLevels(docs'[req[r].id], req[r].userId) = {req[r].accessLevel}
       /\ Resumes(r, "removeSharing", "save")
          => /\ req'[r].status = 200
             /\ EntryLevels(docs'[req[r].id], req[r].userId) = {}
       /\ ( /\ Arrives(r, "getDocument")
            /\ req'[r].id \in DOMAIN docs
            /\ docs[req'[r].id].owner # req'[r].user )
          => IF EntryLevels(docs[req'[r].id], req'[r].user) # {}
             THEN req'[r].status = 200 /\ req'[r].isOwner = FALSE
             ELSE req'[r].status = 403
       /\ ( /\ Arrives(r, "updateDocument")
            /\ WellFormedBody(req'[r].body)
            /\ req'[r].id \in DOMAIN docs
            /\ docs[req'[r].id].owner # req'[r].user )
          => IF "edit" \in EntryLevels(docs[req'[r].id], req'[r].user)
             THEN req'[r].pc = "findByIdAndUpdate"
             ELSE req'[r].pc = "done" /\ req'[r].status = 403]_vars

\* the owner has set a user's entry, granted earlier, to another level
C6_Witness ==
  /\ Answered(1, "updateSharing", 200)
  /\ req[1].id \in DOMAIN docs
  /\ \E i \in DOMAIN docs[req[1].id].sharedWith :
       LET share == docs[req[1].id].sharedWith[i] IN
       /\ share.user = req[1].userId
       /\ share.accessLevel = req[1].accessLevel
       /\ share.sharedAt < docs[req[1].id].updatedAt
       /\ docs[req[1].id].v = 1

(* C7: a delete of an existing document by a user who is not its owner is   *)
(* answered 403 at once; the record stays and the stored object is not      *)
(* released.                                                                *)
C7_DeleteIsOwnerOnly ==
  [][\A r \in Slots :
       ( /\ Arrives(r, "deleteDocument")
         /\ req'[r].id \in DOMAIN docs
         /\ docs[req'[r].id].owner # req'[r].user )
       => /\ req'[r].pc = "done"
          /\ req'[r].status = 403
          /\ docs' = docs
          /\ cloud' = cloud]_vars

\* a user with an edit entry asked to delete and got 403
C7_Witness ==
  /\ Answered(1, "deleteDocument", 403)
  /\ req[1].id \in DOMAIN docs
  /\ EntryLevels(docs[req[1].id], req[1].user) = {"edit"}
  /\ docs[req[1].id].publicId \in cloud

(* C8: a delete by the owner is answered 200 and removes the record also    *)
(* when the content store fails to release the object: a delete that was    *)
(* not refused (403) and found the document (not 404) has answered 200 and  *)
(* the record is gone.                                                      *)
C8_StoreFailureNeverBlocksDelete ==
  \A r \in Slots :
    ( /\ req[r].pc = "done"
      /\ req[r].op = "deleteDocument"
      /\ req[r].status \notin {403, 404} )
    => /\ req[r].status = 200
       /\ req[r].id \notin DOMAIN docs

\* id was given to an upload, has no record, and no create for it is pending
Gone(id) ==
  /\ id \notin DOMAIN docs
  /\ id \notin unused
  /\ \A q \in Slots : ~(req[q].pc = "create" /\ req[q].id = id)

(* C9: a delete that answers 200 leaves the document gone, a document that  *)
(* is gone stays gone, and every well-formed get, update, delete, grant,    *)
(* modify, revoke and listShares on its id, by anybody, is answered 404     *)
(* (by the handler's "Document not found", or for listShares by the         *)
(* router's 404).                                                           *)
C9_DeletedStaysNotFound ==
  [][\A r \in Slots :
       /\ Resumes(r, "deleteDocument", "deleteOne")
          => /\ req'[r].status = 200
             /\ Gone(req[r].id)'
       /\ \A id \in DocIds : Gone(id) => Gone(id)'
       /\ ( /\ Free(r) /\ Steps(r)
            /\ req'[r].op \in {"getDocument", "updateDocument", "deleteDocument",
                               "shareDocument", "updateSharing", "removeSharing",
                               "getSharedUsers", "listShares"}
            /\ req'[r].op = "updateDocument" => WellFormedBody(req'[r].body)
            /\ req'[r].op = "shareDocument" => req'[r].email # "not-an-email"
            /\ req'[r].op \in {"shareDocument", "updateSharing"}
                 => req'[r].accessLevel \in {"view", "edit"}
            /\ Gone(req'[r].id) )
          => /\ req'[r].pc = "done"
             /\ req'[r].status = 404
             /\ req'[r].op # "listShares" => req'[r].message = "Document not found"
             /\ docs' = docs]_vars

\* a user who is not the uploader asked to revoke a share of a deleted document
C9_Witness ==
  /\ Answered(1, "removeSharing", 404)
  /\ req[1].message = "Document not found"
  /\ req[1].user \notin Uploaders
  /\ req[1].id \notin unused
  /\ req[1].id \notin cloud
  /\ req[1].id \notin DOMAIN docs

(* C10: get answers 404 when there is no such document, 403 when the        *)
(* requester is neither the owner nor in sharedWith, and otherwise 200 with *)
(* the document and isOwner true exactly for the owner; it changes nothing. *)
C10_GetDocument ==
  [][\A r \in Slots :
       Arrives(r, "getDocument")
       => /\ req'[r].pc = "done"
          /\ docs' = docs
          /\ IF req'[r].id \notin DOMAIN docs
             THEN req'[r].status = 404
             ELSE LET document == docs[req'[r].id]
                      owner == document.owner = req'[r].user
                  IN IF ~owner /\ EntryLevels(document, req'[r].user) = {}
                     THEN req'[r].status = 403
                     ELSE /\ req'[r].status = 200
                          /\ req'[r].isOwner = owner
                          /\ req'[r].document = document]_vars

\* a user with a view entry got the document, marked as not theirs
C10_Witness ==
  /\ Answered(1, "getDocument", 200)
  /\ req[1].isOwner = FALSE
  /\ req[1].id \in DOMAIN docs
  /\ req[1].document = docs[req[1].id]
  /\ EntryLevels(docs[req[1].id], req[1].user) = {"view"}

(* ----------------------- the auth and user routes ---------------------- *)

\* slot r of the auth and user routes takes a step
AuthSteps(r) == areq'[r] # areq[r]

\* a request for op arrives in slot r and runs to its first await or its answer
AuthArrives(r, op) == AuthFree(r) /\ AuthSteps(r) /\ areq'[r].op = op

\* the request in slot r, waiting at pc, takes its next step
AuthResumes(r, op, pc) == areq[r].op = op /\ areq[r].pc = pc /\ AuthSteps(r)

\* the request in slot r has been answered
AuthAnswered(r, op, status) ==
  areq[r].pc = "done" /\ areq[r].op = op /\ areq[r].status = status

\* the ids of the users registered with email
Registered(email) == {id \in DOMAIN identities : identities[id].email = email}

\* the code of the last mail delivered to email
LastMail(email) == IF email \in DOMAIN outbox THEN outbox[email] ELSE ""

\* a verify request with a well-formed body arrives in slot r for a user who is
\* registered with the address
VerifyArrives(r, id) ==
  /\ AuthArrives(r, "verifyOTP")
  /\ areq'[r].otp \in Codes
  /\ id \in Registered(areq'[r].email)

\* a verify in slot r of a user who is verified is answered 400 with message and
\* changes nothing
VerifyOfVerifiedFails(r, message) ==
  \A id \in DOMAIN identities :
    (VerifyArrives(r, id) /\ identities[id].isVerified)
    => /\ areq'[r].pc = "done"
       /\ areq'[r].status = 400
       /\ areq'[r].message = message
       /\ identities' = identities

\* a verify in slot r with the pending code, before its expiry, goes on to its
\* save, and the save answers 200 with a token, sets isVerified and clears the code
VerifySucceedsOnce(r) ==
  /\ \A id \in DOMAIN identities :
       ( /\ VerifyArrives(r, id)
         /\ ~identities[id].isVerified
         /\ identities[id].otp.code = areq'[r].otp
         /\ now <= identities[id].otp.expiry )
       => /\ areq'[r].pc = "save"
          /\ areq'[r].user.id = id
  /\ AuthResumes(r, "verifyOTP", "save")
     => LET id == areq[r].user.id IN
        /\ areq'[r].status = 200
        /\ areq'[r].issued.id = id
        /\ identities'[id].isVerified
        /\ identities'[id].otp = NoOtp

(* C11, as the code has it: after generate, verify with the pending code    *)
(* before its expiry succeeds, sets isVerified and clears the code; a       *)
(* second verify for the address, with the same or any other code, fails    *)
(* with AlreadyVerified (400 "Email already verified") and changes nothing. *)
C11_VerifySucceedsOnceThenAlreadyVerified ==
  [][\A r \in Slots :
       /\ VerifySucceedsOnce(r)
       /\ VerifyOfVerifiedFails(r, "Email already verified")]_vars

\* a second verify with the code that verified the user was refused
C11_Witness ==
  /\ AuthAnswered(1, "verifyOTP", 400)
  /\ areq[1].message = "Email already verified"
  /\ \E id \in Registered(areq[1].email) :
       /\ identities[id].isVerified
       /\ identities[id].otp = NoOtp
       /\ id \in DOMAIN tokens
       /\ LastMail(areq[1].email) = areq[1].otp

(* C11, as stated: after generate, verify with the correct code before      *)
(* expiry succeeds exactly once, and a second verify for the same email     *)
(* fails with NoPendingCode (400 "No OTP generated for this user").         *)
C11_SecondVerifyFailsNoPendingCode ==
  [][\A r \in Slots :
       /\ VerifySucceedsOnce(r)
       /\ VerifyOfVerifiedFails(r, "No OTP generated for this user")]_vars

(* C12: a pending code is single-use under concurrency: of two verify       *)
(* requests for the same address with the same correct, unexpired code, at  *)
(* most one is answered 200 with a token.                                   *)
C12_PendingCodeIsSingleUse ==
  ~ /\ \A r \in Slots : AuthAnswered(r, "verifyOTP", 200) /\ areq[r].issued # NoToken
    /\ areq[1].email = areq[2].email
    /\ areq[1].otp = areq[2].otp

(* C13: a verify for an unverified user whose pending code has expired is   *)
(* answered 400 "OTP expired" whether the submitted code matches or not,    *)
(* and changes nothing: isVerified stays false and the code stays.          *)
C13_ExpiredCodeFailsExpired ==
  [][\A r \in Slots : \A id \in DOMAIN identities :
       ( /\ VerifyArrives(r, id)
         /\ ~identities[id].isVerified
         /\ identities[id].otp.code # ""
         /\ identities[id].otp.expiry < now )
       => /\ areq'[r].pc = "done"
          /\ areq'[r].status = 400
          /\ areq'[r].message = "OTP expired"
          /\ areq'[r].issued = NoToken
          /\ identities' = identities
          /\ tokens' = tokens]_vars

\* the pending code itself was submitted after its expiry and refused
C13_Witness ==
  /\ AuthAnswered(1, "verifyOTP", 400)
  /\ areq[1].message = "OTP expired"
  /\ \E id \in Registered(areq[1].email) :
       /\ ~identities[id].isVerified
       /\ identities[id].otp.code = areq[1].otp
       /\ identities[id].otp.expiry < now

(* C14: verify and resend for a user who is already verified are answered   *)
(* 400 "Email already verified" at once and change nothing: isVerified      *)
(* stays true, no code is stored, no token is issued and no mail goes out.  *)
C14_AlreadyVerifiedChangesNothing ==
  [][\A r \in Slots : \A id \in DOMAIN identities :
       ( /\ AuthFree(r) /\ AuthSteps(r)
         /\ areq'[r].op \in {"verifyOTP", "resendOTP"}
         /\ areq'[r].op = "verifyOTP" => areq'[r].otp \in Codes
         /\ id \in Registered(areq'[r].email)
         /\ identities[id].isVerified )
       => /\ areq'[r].pc = "done"
          /\ areq'[r].status = 400
          /\ areq'[r].message = "Email already verified"
          /\ areq'[r].issued = NoToken
          /\ identities' = identities
          /\ tokens' = tokens
          /\ outbox' = outbox]_vars

\* a resend for a verified user was refused
C14_Witness ==
  /\ AuthAnswered(1, "resendOTP", 400)
  /\ areq[1].message = "Email already verified"
  /\ \E id \in Registered(areq[1].email) :
       identities[id].isVerified /\ identities[id].otp = NoOtp

(* C15: generation is last-write-wins per user.  The save of a resend       *)
(* replaces the stored code by the one it generated; from then on a verify  *)
(* that submits another code, such as one issued before, is answered 400    *)
(* "Invalid OTP" and changes nothing, and a verify gets past the checks     *)
(* only with the code now stored.                                           *)
C15_ResendInvalidatesEarlierCodes ==
  [][\A r \in Slots :
       /\ AuthResumes(r, "resendOTP", "save")
          => /\ identities'[areq[r].user.id].otp.code = areq[r].code
             /\ areq[r].code \in Codes
       /\ \A id \in DOMAIN identities :
            ( /\ VerifyArrives(r, id)
              /\ ~identities[id].isVerified
              /\ identities[id].otp.code # ""
              /\ now <= identities[id].otp.expiry )
            => IF areq'[r].otp = identities[id].otp.code
               THEN areq'[r].pc = "save"
               ELSE /\ areq'[r].pc = "done"
                    /\ areq'[r].status = 400
                    /\ areq'[r].message = "Invalid OTP"
                    /\ identities' = identities
                    /\ tokens' = tokens]_vars

\* the code of the last mail was submitted after a resend had stored another
\* code (its mail still to go out) and was refused
C15_Witness ==
  /\ AuthAnswered(1, "verifyOTP", 400)
  /\ areq[1].message = "Invalid OTP"
  /\ areq[1].otp = LastMail(areq[1].email)
  /\ areq[2].op = "resendOTP"
  /\ areq[2].pc = "sendOTPEmail"
  /\ areq[2].email = areq[1].email
  /\ \E id \in Registered(areq[1].email) :
       /\ identities[id].otp.code = areq[2].code
       /\ identities[id].otp.code # areq[1].otp
       /\ ~identities[id].isVerified

(* C16: every token that goes out, from verify-otp or from login, is for a  *)
(* user who is stored as verified at that moment, and so is every token     *)
(* issued so far.                                                           *)
C16_TokensOnlyForVerified ==
  [][/\ \A r \in Slots :
          (AuthSteps(r) /\ areq'[r].issued # NoToken)
          => /\ areq'[r].issued.id \in DOMAIN identities'
             /\ identities'[areq'[r].issued.id].isVerified
     /\ \A id \in DOMAIN tokens' :
          /\ tokens'[id].id = id
          /\ id \in DOMAIN identities'
          /\ identities'[id].isVerified]_vars

\* login has issued a token
C16_Witness ==
  \E r \in Slots :
    /\ AuthAnswered(r, "login", 200)
    /\ areq[r].issued \in Issued
    /\ identities[areq[r].issued.id].isVerified

\* the routes behind protect
Protected == {"getMe", "profile", "updateProfile", "updatePassword"}

\* a request arrives in slot r at a route behind protect
GuardedArrives(r) == AuthFree(r) /\ AuthSteps(r) /\ areq'[r].op \in Protected

(* C17: a token issued for a user, presented within its lifetime at a route *)
(* behind the guard, is let through with that user attached to the request, *)
(* also after the user's name or password has changed.                      *)
C17_IssuedTokenAuthenticates ==
  [][\A r \in Slots :
       ( /\ GuardedArrives(r)
         /\ areq'[r].token \in Issued
         /\ now < areq'[r].token.exp )
       => /\ areq'[r].reqUser = areq'[r].token.id
          /\ areq'[r].status # 401]_vars

\* a token was accepted after its user's name and password had changed
C17_Witness ==
  /\ AuthAnswered(1, "profile", 200)
  /\ areq[1].token \in Issued
  /\ areq[1].reqUser = areq[1].token.id
  /\ identities[areq[1].reqUser].name = "n2"
  /\ identities[areq[1].reqUser].password = Hash("secret2")
  /\ identities[areq[1].reqUser].email = areq[1].email

\* what the guard must refuse: no token, a bad signature, a token run out, a
\* token of nobody, a token of an unverified user
Refusable(token) ==
  \/ token = NoToken
  \/ ~token.signed
  \/ token.exp <= now
  \/ token.id \notin DOMAIN identities
  \/ ~identities[token.id].isVerified

(* C18: the guard answers 401, without attaching a user or running the      *)
(* handler and without changing anything, to a request with no token, with  *)
(* a token whose signature or expiry check fails, with a token of a user    *)
(* who does not exist, or with a token of an unverified user; a handler     *)
(* behind it runs only for a user who was found and is verified.            *)
C18_GuardRejects ==
  [][\A r \in Slots :
       GuardedArrives(r)
       => IF Refusable(areq'[r].token)
          THEN /\ areq'[r].pc = "done"
               /\ areq'[r].status = 401
               /\ areq'[r].reqUser = ""
               /\ UNCHANGED <<identities, outbox, tokens, now, docVars>>
          ELSE /\ areq'[r].reqUser = areq'[r].token.id
               /\ areq'[r].status # 401]_vars

\* a signed token of an unverified user was refused
C18_Witness ==
  /\ AuthAnswered(1, "updateProfile", 401)
  /\ areq[1].message = "Please verify your email to access this route"
  /\ areq[1].token.signed
  /\ areq[1].token.id \in DOMAIN identities
  /\ ~identities[areq[1].token.id].isVerified
  /\ identities[areq[1].token.id].name = "n1"

(* C19: login for a registered, unverified user is answered 401 without a   *)
(* token whatever the password; for a verified user it is answered 200 with *)
(* a token when the password is the user's and 401 when it is not; for an   *)
(* unknown address it is answered 401.                                      *)
C19_LoginNeedsVerification ==
  [][\A r \in Slots :
       /\ ( AuthArrives(r, "login") /\ areq'[r].email # "not-an-email" )
          => IF Registered(areq'[r].email) = {}
             THEN areq'[r].pc = "done" /\ areq'[r].status = 401 /\ tokens' = tokens
             ELSE \A id \in Registered(areq'[r].email) :
                    IF identities[id].isVerified
                    THEN areq'[r].pc = "matchPassword"
                    ELSE /\ areq'[r].pc = "done"
                         /\ areq'[r].status = 401
                         /\ areq'[r].issued = NoToken
                         /\ tokens' = tokens
       /\ AuthResumes(r, "login", "matchPassword")
          => LET id == areq[r].user.id IN
             IF identities[id].password = Hash(areq[r].password)
             THEN /\ areq'[r].status = 200
                  /\ areq'[r].issued.id = id
                  /\ areq'[r].issued.signed
             ELSE /\ areq'[r].status = 401
                  /\ areq'[r].issued = NoToken
                  /\ tokens' = tokens]_vars

\* an unverified user's login with the user's own password was refused
C19_Witness ==
  /\ AuthAnswered(1, "login", 401)
  /\ areq[1].message = "Please verify your email before logging in"
  /\ areq[1].issued = NoToken
  /\ \E id \in Registered(areq[1].email) :
       /\ ~identities[id].isVerified
       /\ identities[id].password = Hash(areq[1].password)
       /\ identities[id].otp.code # ""

\* no two users have the same address
UniqueEmails ==
  \A a, b \in DOMAIN identities : identities[a].email = identities[b].email => a = b

UndeliveredCodeIsStored(r) ==
  \A op \in {"register", "resendOTP"} :
    AuthResumes(r, op, "sendOTPEmail")
    => LET id == areq[r].user.id IN
       /\ areq'[r].pc = "done"
       /\ areq'[r].status \in {IF op = "register" THEN 201 ELSE 200, 500}
       /\ areq'[r].status = 500
            => /\ areq'[r].message = "Failed to send verification email"
               /\ outbox' = outbox
       /\ areq'[r].status # 500 => LastMail(areq[r].email)' = areq[r].code
       /\ identities' = identities
       /\ id \in Registered(areq[r].email)
       /\ ~identities[id].isVerified
       /\ areq[r].code \in Codes
       /\ identities[id].otp = areq[r].user.otp
       /\ identities[id].otp.code = areq[r].code

\* a resend in slot r for a registered, unverified user generates a code that
\* expires OtpTtl from now, and its save stores that code
ResendIssuesFreshCode(r) ==
  /\ \A id \in DOMAIN identities :
       ( /\ AuthArrives(r, "resendOTP")
         /\ id \in Registered(areq'[r].email)
         /\ ~identities[id].isVerified )
       => /\ areq'[r].pc = "save"
          /\ areq'[r].user.id = id
          /\ areq'[r].code \in Codes
          /\ areq'[r].user.otp = [code |-> areq'[r].code, expiry |-> now + OtpTtl]
  /\ AuthResumes(r, "resendOTP", "save")
     => /\ areq'[r].pc = "sendOTPEmail"
        /\ identities'[areq[r].user.id].otp = areq[r].user.otp

(* C21: when the mail with the code cannot be sent during register or       *)
(* resend, the request is answered 500 "Failed to send verification email"  *)
(* (success is 201 or 200), and the generated code is stored all the same:  *)
(* the user exists, unverified, with that code pending; a verify with the   *)
(* pending code before its expiry succeeds, and a resend that follows       *)
(* stores a fresh code.                                                     *)
C21_UndeliveredCodeStaysPending ==
  [][\A r \in Slots :
       /\ UndeliveredCodeIsStored(r)
       /\ VerifySucceedsOnce(r)
       /\ ResendIssuesFreshCode(r)]_vars

\* a resend whose mail failed was answered 500; its code is stored, pending, and
\* is not the code of the last mail that went out
C21_Witness ==
  /\ AuthAnswered(1, "resendOTP", 500)
  /\ areq[1].message = "Failed to send verification email"
  /\ \E id \in Registered(areq[1].email) :
       /\ ~identities[id].isVerified
       /\ identities[id].otp.code \in Codes
       /\ identities[id].otp.code # LastMail(areq[1].email)

(* C22: an upload stores the file in the content store before it creates    *)
(* the record: when the content store fails the request is answered 500 and *)
(* no record exists afterwards; when it succeeds, the record that a         *)
(* well-formed request creates has the requester as owner, the url and      *)
(* storage key the content store returned, and an empty sharedWith.         *)
C22_UploadBeforeCreate ==
  [][/\ \A id \in DOMAIN docs' \ DOMAIN docs :
          \E r \in Slots : Resumes(r, "uploadDocument", "create") /\ id = req[r].id
     /\ \A r \in Slots :
       /\ ( /\ Arrives(r, "uploadDocument")
            /\ WellFormedBody(req'[r].body)
            /\ req'[r].status # 400 )
          => /\ docs' = docs
             /\ \/ /\ req'[r].pc = "done"
                   /\ req'[r].status = 500
                   /\ req'[r].message = "Failed to upload file to cloud storage"
                   /\ cloud' = cloud
                   /\ unused' = unused
                \/ /\ req'[r].pc = "create"
                   /\ req'[r].id \in unused
                   /\ req'[r].id \notin DOMAIN docs
                   /\ cloud' = cloud \cup {req'[r].id}
       /\ ( /\ Resumes(r, "uploadDocument", "create")
            /\ WellFormedBody(req[r].body) )
          => LET id == req[r].id IN
             /\ req[r].id \in cloud
             /\ req'[r].status = 201
             /\ DOMAIN docs' = DOMAIN docs \cup {id}
             /\ docs'[id].owner = req[r].user
             /\ docs'[id].fileUrl = <<"secure_url", id>>
             /\ docs'[id].publicId = id
             /\ docs'[id].sharedWith = << >>
             /\ req'[r].document = docs'[id]]_vars

\* an upload was answered 201: its record is stored with the requester as owner,
\* the storage key of an object in the content store, and nobody to share with
C22_Witness ==
  /\ Answered(1, "uploadDocument", 201)
  /\ req[1].id \in DOMAIN docs
  /\ docs[req[1].id].owner = req[1].user
  /\ docs[req[1].id].publicId \in cloud
  /\ docs[req[1].id].sharedWith = << >>

\* no document's owner has an entry in its sharedWith
OwnerNeverShared ==
  \A id \in DOMAIN docs :
    \A i \in DOMAIN docs[id].sharedWith :
      docs[id].sharedWith[i].user # docs[id].owner

(* C23: a grant by the owner is answered 404 "User not found" when the      *)
(* email matches no user and 400 "Cannot share document with yourself"      *)
(* when it is the owner's own, and leaves every document as it was; so no   *)
(* document's owner ever has an entry in its sharedWith.                    *)
C23_NoGrantToNobodyOrSelf ==
  [][\A r \in Slots :
       /\ ( /\ Resumes(r, "shareDocument", "findUser")
            /\ \A u \in Users : EmailOf[u] # req[r].email )
          => /\ req'[r].pc = "done"
             /\ req'[r].status = 404
             /\ req'[r].message = "User not found"
             /\ docs' = docs
       /\ ( /\ Resumes(r, "shareDocument", "findUser")
            /\ req[r].email = EmailOf[req[r].document.owner] )
          => /\ req'[r].pc = "done"
             /\ req'[r].status = 400
             /\ req'[r].message = "Cannot share document with yourself"
             /\ docs' = docs
       /\ req[r].pc = "findUser" => req[r].document.owner = req[r].user
       /\ OwnerNeverShared
       /\ OwnerNeverShared']_vars

\* the owner of a document that is shared with somebody else asked to share
\* it with themselves and was refused
C23_Witness ==
  /\ Answered(1, "shareDocument", 400)
  /\ req[1].message = "Cannot share document with yourself"
  /\ req[1].id \in DOMAIN docs
  /\ docs[req[1].id].owner = req[1].user
  /\ docs[req[1].id].sharedWith # << >>

(* C24: a grant by the owner to a registered user who is not the owner and  *)
(* has no entry succeeds: it goes on to its save, which answers 200 and     *)
(* appends exactly one entry, for that user with the requested level, at    *)
(* the end of sharedWith, every other entry and the order staying the same. *)
C24_GrantAppendsOneEntry ==
  [][\A r \in Slots :
       /\ ( /\ Resumes(r, "shareDocument", "findUser")
            /\ \E u \in Users \ {req[r].document.owner} :
                 /\ EmailOf[u] = req[r].email
                 /\ EntryLevels(req[r].document, u) = {} )
          => /\ req'[r].pc = "save"
             /\ EmailOf[req'[r].userId] = req[r].email
             /\ docs' = docs
       /\ ( /\ Resumes(r, "shareDocument", "save")
            /\ req[r].id \in DOMAIN docs )
          => LET before == docs[req[r].id].sharedWith
                 after == docs'[req[r].id].sharedWith
             IN /\ req'[r].status = 200
                /\ Len(after) = Len(before) + 1
                /\ SubSeq(after, 1, Len(before)) = before
                /\ after[Len(after)].user = req[r].userId
                /\ after[Len(after)].accessLevel = req[r].accessLevel
                /\ [docs'[req[r].id] EXCEPT !.sharedWith = before, !.v = 0, !.updatedAt = 0]
                     = [docs[req[r].id] EXCEPT !.v = 0, !.updatedAt = 0]]_vars

\* a second user was granted access: the first user's entry is still first
C24_Witness ==
  /\ Answered(1, "shareDocument", 200)
  /\ req[1].id \in DOMAIN docs
  /\ LET sharedWith == docs[req[1].id].sharedWith IN
       /\ Len(sharedWith) = 2
       /\ sharedWith[2].user = req[1].userId
       /\ sharedWith[2].accessLevel = req[1].accessLevel
       /\ sharedWith[1].user # req[1].userId
       /\ sharedWith[1].accessLevel # req[1].accessLevel

\* a modify or revoke of the owner with a well-formed body arrives in slot r for
\* a stored document
OwnerArrives(r, op) ==
  /\ Arrives(r, op)
  /\ req'[r].id \in DOMAIN docs
  /\ docs[req'[r].id].owner = req'[r].user
  /\ op = "updateSharing" => req'[r].accessLevel \in {"view", "edit"}

\* document but for the fields every save writes
Frame(document) == [document EXCEPT !.sharedWith = << >>, !.v = 0, !.updatedAt = 0]

(* C25: a modify by the owner for a user without an entry is answered 404   *)
(* "Document not shared with this user", changes nothing and creates no     *)
(* entry; for a user with an entry it goes on to its save, which answers    *)
(* 200 and changes only the accessLevel of that user's entry: the entry's   *)
(* position and sharedAt, the length and every other entry stay.            *)
C25_ModifyChangesOnlyTheLevel ==
  [][\A r \in Slots :
       /\ OwnerArrives(r, "updateSharing")
          => /\ docs' = docs
             /\ IF EntryLevels(docs[req'[r].id], req'[r].userId) = {}
                THEN /\ req'[r].pc = "done"
                     /\ req'[r].status = 404
                     /\ req'[r].message = "Document not shared with this user"
                ELSE req'[r].pc = "save"
       /\ ( /\ Resumes(r, "updateSharing", "save")
            /\ req[r].id \in DOMAIN docs )
          => LET before == docs[req[r].id].sharedWith
                 after == docs'[req[r].id].sharedWith
             IN /\ req'[r].status = 200
                /\ after = [i \in DOMAIN before |->
                              IF before[i].user = req[r].userId
                              THEN [before[i] EXCEPT !.accessLevel = req[r].accessLevel]
                              ELSE before[i]]
                /\ docs'[req[r].id].v = docs[req[r].id].v
                /\ Frame(docs'[req[r].id]) = Frame(docs[req[r].id])]_vars

\* the level of one of two entries was changed, the other entry has the other
\* level
C25_Witness ==
  /\ Answered(1, "updateSharing", 200)
  /\ req[1].id \in DOMAIN docs
  /\ LET sharedWith == docs[req[1].id].sharedWith IN
       /\ Len(sharedWith) = 2
       /\ \E i, j \in DOMAIN sharedWith :
            /\ sharedWith[i].user = req[1].userId
            /\ sharedWith[i].accessLevel = req[1].accessLevel
            /\ sharedWith[j].user # req[1].userId
            /\ sharedWith[j].accessLevel # req[1].accessLevel

(* C26: a revoke by the owner for a user without an entry is answered 404   *)
(* "Document not shared with this user" and changes nothing; for a user     *)
(* with an entry it goes on to its save, which answers 200 and removes      *)
(* exactly that user's entry, the other entries staying as they are and in  *)
(* their order; the user has no entry afterwards, so that a second revoke   *)
(* is answered 404.                                                         *)
C26_RevokeRemovesOnlyTheEntry ==
  [][\A r \in Slots :
       /\ OwnerArrives(r, "removeSharing")
          => /\ docs' = docs
             /\ IF EntryLevels(docs[req'[r].id], req'[r].userId) = {}
                THEN /\ req'[r].pc = "done"
                     /\ req'[r].status = 404
                     /\ req'[r].message = "Document not shared with this user"
                ELSE req'[r].pc = "save"
       /\ ( /\ Resumes(r, "removeSharing", "save")
            /\ req[r].id \in DOMAIN docs )
          => LET before == docs[req[r].id].sharedWith
                 after == docs'[req[r].id].sharedWith
             IN /\ req'[r].status = 200
                /\ after = SelectSeq(before, LAMBDA share : share.user # req[r].userId)
                /\ Len(after) = Len(before) - 1
                /\ EntryLevels(docs'[req[r].id], req[r].userId) = {}
                /\ Frame(docs'[req[r].id]) = Frame(docs[req[r].id])]_vars

\* one of two entries was removed at a later time: the other is still there, with
\* the sharedAt it had
C26_Witness ==
  /\ Answered(1, "removeSharing", 200)
  /\ req[1].id \in DOMAIN docs
  /\ LET sharedWith == docs[req[1].id].sharedWith IN
       /\ Len(sharedWith) = 1
       /\ docs[req[1].id].v = 3
       /\ sharedWith[1].user # req[1].userId
       /\ sharedWith[1].sharedAt = 0
       /\ now = 1

(* C27: a request for the shares of a stored document (GET                  *)
(* /documents/:id/shared) by its owner or by a user with an entry of either *)
(* level is answered 200 with one element per entry of sharedWith, carrying *)
(* the entry's user and accessLevel, and by any other user 403.             *)
C27_ListSharesAnswersOwnerAndTargets ==
  [][\A r \in Slots :
       ( /\ Free(r) /\ Steps(r)
         /\ req'[r].op \in {"listShares", "getSharedUsers"}
         /\ req'[r].id \in DOMAIN docs )
       => LET document == docs[req'[r].id]
              user == req'[r].user
          IN /\ req'[r].pc = "done"
             /\ docs' = docs
             /\ IF user = document.owner \/ EntryLevels(document, user) # {}
                THEN /\ req'[r].status = 200
                     /\ Len(req'[r].data) = Len(document.sharedWith)
                     /\ \A i \in DOMAIN document.sharedWith :
                          /\ req'[r].data[i].user.id = document.sharedWith[i].user
                          /\ req'[r].data[i].accessLevel = document.sharedWith[i].accessLevel
                ELSE req'[r].status = 403]_vars

(* C28: the owner of a document never changes: no step of an update, grant, *)
(* modify or revoke, by anybody, changes the owner field; an update changes *)
(* nothing before its save, and its save writes title, description and      *)
(* documentType from the body and leaves sharedWith, fileUrl, publicId and  *)
(* the owner as they are.                                                   *)
C28_OwnerAndContentStay ==
  [][/\ \A id \in DOMAIN docs \cap DOMAIN docs' : docs'[id].owner = docs[id].owner
     /\ \A r \in Slots :
          /\ Arrives(r, "updateDocument") => docs' = docs
          /\ ( /\ Resumes(r, "updateDocument", "findByIdAndUpdate")
               /\ req[r].id \in DOMAIN docs )
             => LET before == docs[req[r].id]
                    after == docs'[req[r].id]
                IN /\ after.owner = before.owner
                   /\ after.sharedWith = before.sharedWith
                   /\ after.fileUrl = before.fileUrl
                   /\ after.publicId = before.publicId
                   /\ after.v = before.v
                   /\ req'[r].status = 200
                        => /\ after.title = req[r].body.title
                           /\ after.description = req[r].body.description
                           /\ after.documentType = req[r].body.documentType
                   /\ req'[r].status # 200 => after = before]_vars

\* a user with edit access changed the title of a document that is shared with
\* two users: the owner is still the uploader
C28_Witness ==
  /\ Answered(1, "updateDocument", 200)
  /\ req[1].id \in DOMAIN docs
  /\ LET document == docs[req[1].id] IN
       /\ document.owner \in Uploaders
       /\ document.owner # req[1].user
       /\ document.title = "t2"
       /\ document.title = req[1].body.title
       /\ Len(document.sharedWith) = 2
       /\ document.publicId = req[1].id

(* C29: isVerified is monotonic: a user who is verified stays stored and    *)
(* verified through every step of every register, verify, resend, login,    *)
(* profile update and password change, however the requests interleave.     *)
C29_VerifiedStaysVerified ==
  [][\A id \in DOMAIN identities :
       identities[id].isVerified
       => /\ id \in DOMAIN identities'
          /\ identities'[id].isVerified]_vars

\* a resend that had loaded the user before the verify saved its code after it,
\* and the user then changed the password: the user is still verified
C29_Witness ==
  \E id \in DOMAIN identities :
    /\ identities[id].isVerified
    /\ identities[id].otp.code \in Codes
    /\ identities[id].password = Hash("secret2")
    /\ \E r \in Slots : AuthAnswered(r, "updatePassword", 200)

(* C30: in every reachable state a verified user has no pending code, also  *)
(* when a resend and a successful verify for the user interleave.           *)
C30_VerifiedHasNoPendingCode ==
  \A id \in DOMAIN identities :
    identities[id].isVerified => identities[id].otp = NoOtp

(* C31: an update writes only for a user who, when the write is made, is    *)
(* the owner or holds an edit entry: an update that is answered 200 finds   *)
(* its requester as owner or with an edit entry in the stored document,     *)
(* also when a revoke or a downgrade to view by the owner has completed     *)
(* between the update's authorization check and its write.                  *)
C31_UpdateWritesOnlyForEditors ==
  [][\A r \in Slots :
       ( /\ Resumes(r, "updateDocument", "findByIdAndUpdate")
         /\ req'[r].status = 200 )
       => \/ docs[req[r].id].owner = req[r].user
          \/ "edit" \in EntryLevels(docs[req[r].id], req[r].user)]_vars

\* a grant, modify, revoke or update in slot r that loaded the document writes
\* after the document has been deleted
WritesAfterDelete(r) ==
  /\ \/ Resumes(r, "shareDocument", "save")
     \/ Resumes(r, "updateSharing", "save")
     \/ Resumes(r, "removeSharing", "save")
     \/ Resumes(r, "updateDocument", "findByIdAndUpdate")
  /\ req[r].id \notin DOMAIN docs

(* C32: a deleted document never reappears: a delete answered 200 leaves    *)
(* no record; a grant, modify, revoke or update that loaded the document    *)
(* before the delete and writes after it creates no record and is not       *)
(* answered 200; a document that is gone stays gone, and a get for it is    *)
(* answered 404.                                                            *)
C32_DeletedNeverReappears ==
  [][/\ \A id \in DocIds : Gone(id) => Gone(id)'
     /\ \A r \in Slots :
          /\ ( Resumes(r, "deleteDocument", "deleteOne") /\ req'[r].status = 200 )
             => Gone(req[r].id)'
          /\ WritesAfterDelete(r)
             => /\ docs' = docs
                /\ req'[r].pc = "done"
                /\ req'[r].status = 500
          /\ ( Arrives(r, "getDocument") /\ Gone(req'[r].id) )
             => req'[r].status = 404]_vars

\* a delete was answered 200 while a grant that had loaded the document was
\* waiting to save; the grant was then answered 500 and there is no record
C32_Witness ==
  /\ Answered(1, "deleteDocument", 200)
  /\ Answered(2, "shareDocument", 500)
  /\ req[1].id = req[2].id
  /\ Gone(req[1].id)

(* C34: in every reachable state every record refers to an object that is   *)
(* in the content store, and every object in the content store is referred  *)
(* to by a record (but for the object of an upload whose create is pending  *)
(* and the record of a delete whose deleteOne is pending): no failure of    *)
(* the create after the upload or of the delete leaves an orphaned object   *)
(* or a dangling record.                                                    *)
C34_RecordsAndObjectsCorrespond ==
  /\ \A id \in DOMAIN docs :
       \/ docs[id].publicId \in cloud
       \/ \E r \in Slots : req[r].pc = "deleteOne" /\ req[r].id = id
  /\ \A object \in cloud :
       \/ \E id \in DOMAIN docs : docs[id].publicId = object
       \/ \E r \in Slots : req[r].pc = "create" /\ req[r].id = object

(* C33: verification stays reachable for an unverified user: a resend for   *)
(* a registered, unverified user stores a fresh code, a verify with the     *)
(* pending code before its expiry succeeds, and, when resends and such      *)
(* verifies are not put off for ever, every registered user who is          *)
(* unverified is verified in the end.                                       *)
C33_UnverifiedEventuallyVerified ==
  /\ [][ResendIssuesFreshCode(1) /\ VerifySucceedsOnce(1)]_vars
  /\ \A id \in UserIds :
       (id \in DOMAIN identities /\ ~identities[id].isVerified)
         ~> (id \in DOMAIN identities /\ identities[id].isVerified)

\* a user was verified, after the first code had expired, with a code that no
\* mail had delivered
C33_Witness ==
  /\ AuthAnswered(1, "verifyOTP", 200)
  /\ \E id \in Registered(areq[1].email) :
       /\ identities[id].isVerified
       /\ areq[1].issued.id = id
  /\ areq[1].otp # LastMail(areq[1].email)
  /\ now > OtpTtl

====
